---- MODULE Spec2Model ----
(***************************************************************************)
(* Redis orchestrator plugin: job lifecycle (job tracker, worker, hooks,   *)
(* dependency gates, restart), approval handlers, circuit breaker, job     *)
(* creation, and the dispatch, status and list tools.                      *)
(*                                                                         *)
(* The specifications share the module; each one moves its own group of    *)
(* variables and leaves the other groups at their initial values:          *)
(*   SpecJob      - jobVars  : queues, job records, worker, agent_end hook *)
(*   SpecApproval - apVars   : one approval record and the handlers on it  *)
(*   SpecBreaker  - cbVars   : QueueCircuitBreaker                         *)
(*   SpecTrack    - toolVars : JobTracker.createJob and the job index      *)
(*   SpecDispatch - dqVars   : queue_dispatch rate limit and depth cap     *)
(*   SpecView     - dqVars   : queue_status and queue_list                 *)
(*   SpecExecute  - exVars   : queue_dispatch from entry to return, with   *)
(*                             the breaker's cbVars                        *)
(*   SpecLaunch   - jobVars  : launch and agent_end under fairness         *)
(***************************************************************************)
EXTENDS Integers, FiniteSets, Sequences, TLC

\* ------------------------------------------------------------------ bounds
MaxJobs == 2
MaxSessions == 2
NumHooks == 1
MaxFaults == 3
MaxOps == 3
MaxInflight == 2
MaxTime == 4
MaxRuns == 2
NumAgents == 2
MaxCalls == 3
MaxDispatches == 3
MaxRate == 2
MaxDepth == 2
MaxViewed == 2
MaxExec == 2
MaxSweeps == 1
MaxQueueCalls == 2
MaxObservers == 2
\* seconds that pass in one step of the clock
TickSeconds == 30
\* circuitBreaker.resetTimeout, in clock ticks
ResetTimeout == 2

\* ------------------------------------------------------- program constants
\* queue-config.ts:21 defaultJobOptions.attempts (launch-failure retries)
LaunchAttempts == 3
\* queue-config.ts:13 maxStalledCount
MaxStalledCount == 2
\* config-schema.ts:74-75 retry.agentFailureAttempts: default and minimum
DefaultAttempts == 3
MinAttempts == 1
\* service.ts:42 circuitBreaker.failureThreshold default
FailMax == 5
\* queue-dispatch.ts:444 EXPIRE of the rate-limit counter, in seconds
RateWindow == 60
\* worker.ts:131 subagents.maxSpawnDepth default
DefaultMaxSpawnDepth == 1
\* worker.ts:140 subagents.maxChildrenPerAgent default
DefaultMaxChildren == 5

JobIds == 1..MaxJobs
SessionKeys == 1..MaxSessions
Hooks == 1..NumHooks
Ops == 1..MaxOps
Runs == 1..MaxRuns
Agents == 1..NumAgents
Calls == 1..MaxCalls
\* BullMQ job ids: the run ids, then the ids BullMQ generates
TrkIds == 1..(MaxRuns + MaxCalls)
DCalls == 1..MaxDispatches

VARIABLES
  \* ---- SpecJob
  up,            \* the gateway process (service, workers, hooks) is running
  trackerArg,    \* jobTracker argument given to createWorkers (null = FALSE)
  cfgAttempts,   \* pluginConfig.retry.agentFailureAttempts
  rec,           \* job.data of every job, NoRec when the job does not exist
  bull,          \* BullMQ state of every job
  attemptsMade,  \* BullMQ attemptsMade of every job
  stalledCount,  \* BullMQ stalled counter of every job
  gate,          \* dependency-gate child of parent p for dependency d
  jobIndex,      \* bull:job-index (set of indexed job ids)
  sessionIndex,  \* bull:session-index : sessionKey -> jobId (0 = no entry)
  started,       \* child sessions started by the `agent` call : key -> jobId
  ended,         \* how each child session ended: running, ok or failed
  worker,        \* the agent queue's worker (concurrency 1)
  hook,          \* in-flight agent_end handlers
  faults,        \* kills and launch errors injected so far
  launchCheck,   \* job -> the latest rejection of its launch by the checks of processJob
  dlq,           \* jobs whose failed event was published, jobs a DLQ alert was sent for
  \* ---- SpecApproval
  apRec,         \* orch:approval:<id>, Absent when the key does not exist
  apTtl,         \* which expiry the key carries: "orig" (EX ttlSeconds) or "day" (EX 86400)
  apPending,     \* id is a member of orch:approvals:pending
  apAge,         \* "fresh", or "past" once Date.now() - createdAt > ttlMs
  apSpawns,      \* successful spawnApprovedAgent calls
  apChildren,    \* child sessions the session host started for the approval
  op,            \* the /approve, /reject and reaction handlers being run
  authorizedApprovers, \* pluginConfig.approval.authorizedApprovers
  \* ---- SpecBreaker
  cbState,       \* QueueCircuitBreaker.state
  cbFailures,    \* QueueCircuitBreaker.failures
  cbLastFailure, \* QueueCircuitBreaker.lastFailure
  cbNow,         \* Date.now()
  cbInflight,    \* dispatch calls that are awaiting fn()
  cbLast,        \* what the latest dispatch call invoked first: primary or fallback
  cbForcedAt,    \* time of the latest forceOpen call, -1 when there was none
  cbStreak,      \* primary failures since the latest primary success
  cbHalf,        \* how the latest primary call that ended in half-open ended
  \* ---- SpecTrack
  trkTarget,     \* target agent of each sessions_spawn run (0 = not spawned yet)
  trkQueue,      \* queue agent-<a> : BullMQ job id -> job.data
  trkIndex,      \* bull:job-index : BullMQ job id -> agent of the queue (0 = no entry)
  trkSweep,      \* cleanupStaleIndexEntries: its position, snapshot and stale keys
  trkNext,       \* ids BullMQ has generated so far
  trkCall,       \* the createJob calls
  \* ---- SpecDispatch, SpecView
  dispatchesPerMinute, \* pluginConfig.rateLimit.dispatchesPerMinute
  maxQueueDepth, \* pluginConfig.rateLimit.maxQueueDepth
  rlKey,         \* bull:ratelimit:dispatch:<caller> : value and seconds to live
  rlWindow,      \* how many times the counter of <caller> has been created
  dqCall,        \* the queue_dispatch calls on the non-approval path
  dqJobs,        \* the job each queue_dispatch call enqueued: job.data, with the
                 \* BullMQ state of the job as its status
  reply          \* what the latest queue_status / queue_list call returned

jobVars == <<up, trackerArg, cfgAttempts, rec, bull, attemptsMade, stalledCount,
             gate, jobIndex, sessionIndex, started, ended, worker, hook, faults,
             launchCheck, dlq>>

apVars == <<apRec, apTtl, apPending, apAge, apSpawns, apChildren, op, authorizedApprovers>>

cbVars == <<cbState, cbFailures, cbLastFailure, cbNow, cbInflight, cbLast, cbForcedAt,
            cbStreak, cbHalf>>

toolVars == <<trkTarget, trkQueue, trkIndex, trkNext, trkCall, trkSweep>>

VARIABLES
  \* the queue_dispatch tool's execute, from entry to return
  pluginState,       \* which of state.connection, jobTracker, circuitBreaker are set
  discordChannelId,  \* approval.discordChannelId is configured
  storeUp,           \* the store answers commands
  exCall,            \* call -> where execute stands, its arguments, its result
  approvalKeys,      \* calls whose orch:approval:{id} record is stored
  pendingZset,       \* calls whose id is in orch:approvals:pending
  projectZset,       \* calls whose id is in orch:approvals:project:{project}
  msgIndex,          \* calls whose orch:approvals:msg:{messageId} key is stored
  notified,          \* calls whose approval notification was sent
  childSessions,     \* calls for which the session host started a child session
  enqueued,          \* calls whose job was added to the target's queue
  approvedIds,       \* calls whose approval an authorized approver approved
  svc,               \* where start or stop of the service stands, components closed
  svcObs             \* tool or hook call -> the shared state it read

dqVars == <<dispatchesPerMinute, maxQueueDepth, rlKey, rlWindow, dqCall, dqJobs, reply>>

exVars == <<pluginState, svc, svcObs, discordChannelId, storeUp, exCall, approvalKeys, pendingZset,
            projectZset, msgIndex, notified, childSessions, enqueued, approvedIds>>

vars == <<jobVars, apVars, cbVars, toolVars, dqVars, exVars>>

NoRec == [status |-> "none"]

\* AgentJob (types): the fields the lifecycle reads or writes
NewRecord(deps) ==
  [status |-> "queued", retryCount |-> 0, dependsOn |-> deps, sessionKey |-> 0,
   completedAt |-> FALSE, error |-> "none", retriedByJobId |-> 0, originalJobId |-> 0]

IdleWorker == [pc |-> "idle", job |-> 0, snap |-> NoRec, key |-> 0]
IdleHook == [pc |-> "idle", key |-> 0, success |-> FALSE, job |-> 0, snap |-> NoRec]

\* no launch of the job has been rejected by the checks of processJob
NoCheck == [reason |-> "ok", attempt |-> 0]

InitJob ==
  /\ up = TRUE
  /\ trackerArg \in BOOLEAN
  /\ cfgAttempts \in {MinAttempts, DefaultAttempts}
  /\ rec = [j \in JobIds |-> NoRec]
  /\ bull = [j \in JobIds |-> "none"]
  /\ attemptsMade = [j \in JobIds |-> 0]
  /\ stalledCount = [j \in JobIds |-> 0]
  /\ gate = [p \in JobIds |-> [d \in JobIds |-> "none"]]
  /\ jobIndex = {}
  /\ sessionIndex = [k \in SessionKeys |-> 0]
  /\ started = [k \in SessionKeys |-> 0]
  /\ ended = [k \in SessionKeys |-> "running"]
  /\ worker = IdleWorker
  /\ hook = [h \in Hooks |-> IdleHook]
  /\ faults = 0
  /\ launchCheck = [j \in JobIds |-> NoCheck]
  /\ dlq = [published |-> {}, alerts |-> {}]

\* ------------------------------------------------------------ pure helpers
\* hooks.ts:109  finalStatus = event.success ? 'completed' : 'failed'
FinalStatus(success) == IF success THEN "completed" ELSE "failed"

\* part_002:390  job.updateData({...job.data, status, ...extras}) with
\* extras = {completedAt: Date.now(), error?} (hooks.ts:110-119)
EndedRecord(data, success) ==
  [data EXCEPT !.status = FinalStatus(success),
               !.completedAt = TRUE,
               !.error = IF success THEN data.error ELSE "agent"]

\* off by one: a job at the last attempt is still said to have a retry left
HasRetriesLeftOffByOne(retryCount, maxAttempts) == retryCount < maxAttempts

\* hooks.ts:233  retryCount < maxAttempts - 1
HasRetriesLeft(retryCount, maxAttempts) == retryCount < maxAttempts - 1

\* hooks.ts:272-275  job.updateData({...job.data, status: "failed_permanent"})
PermanentRecord(data) == [data EXCEPT !.status = "failed_permanent"]

\* worker.ts:294-300  job.updateData({...job.data, status: "active",
\* openclawRunId, openclawSessionKey, startedAt})
LaunchedRecord(data, key) == [data EXCEPT !.status = "active", !.sessionKey = key]

\* dependency-gate-worker.ts:54-67  depState = await depJob.getState():
\* the dependency's BullMQ state (launch lifecycle), not job.data.status
GateOutcome(depState) ==
  CASE depState = "completed" -> "completed"
    [] depState = "failed" -> "failed"
    [] OTHER -> "waiting"

\* service.ts:223-232  recoverInterruptedJobs reads the active jobs, counts
\* and logs the announcing ones, and writes nothing back
RecoveredRecord(data) == data

\* worker.ts:133-167, queue-config.ts:21  UnrecoverableError fails the job at
\* once; any other error is retried until `attempts` launch attempts are made
AfterLaunchError(unrecoverable, made) ==
  IF unrecoverable \/ made >= LaunchAttempts THEN "failed" ELSE "delayed"

\* worker.ts:126-167 the checks of processJob in their order: depth, active
\* children, allowlist
LaunchCheck(callerDepth, activeChildren, allowed) ==
  IF callerDepth >= DefaultMaxSpawnDepth THEN "depth"
  ELSE IF activeChildren >= DefaultMaxChildren THEN "children"
  ELSE IF ~allowed THEN "allowlist"
  ELSE "ok"

\* every rejection is an UnrecoverableError
IsUnrecoverableAlways(reason) == TRUE

\* worker.ts:133-137, 161-165 throw UnrecoverableError; 142-146 throws Error
IsUnrecoverable(reason) == reason \in {"depth", "allowlist"}

Launches(j) == Cardinality({k \in SessionKeys : started[k] = j})
FreeKeys == {k \in SessionKeys : started[k] = 0}
FreeJobs == {j \in JobIds : rec[j] = NoRec}
Min(S) == CHOOSE x \in S : \A y \in S : x <= y

\* ------------------------------------------------------------- job tracker
\* part_002:163-237 createJob (dependsOn empty) and part_002:249-298
\* createJobWithDependencies: every dependency must be in bull:job-index,
\* the parent waits in waiting-children with one gate child per dependency
createJob(deps) ==
  /\ up
  /\ FreeJobs # {}
  /\ deps \subseteq jobIndex
  /\ LET j == Min(FreeJobs) IN
       /\ rec' = [rec EXCEPT ![j] = NewRecord(deps)]
       /\ bull' = [bull EXCEPT ![j] = IF deps = {} THEN "wait" ELSE "waiting-children"]
       /\ gate' = [gate EXCEPT ![j] = [d \in JobIds |-> IF d \in deps THEN "waiting" ELSE "none"]]
       /\ jobIndex' = jobIndex \cup {j}
  /\ UNCHANGED <<dlq, launchCheck, up, trackerArg, cfgAttempts, attemptsMade, stalledCount,
                 sessionIndex, started, ended, worker, hook, faults,
                 apVars, cbVars, toolVars, dqVars, exVars>>

\* ----------------------------------------------------- dependency-gate worker
\* dependency-gate-worker.ts:29-74 processGate, one poll of the loop; when the
\* last gate of a flow completes BullMQ moves the parent to wait
processGate(p, d) ==
  /\ up
  /\ gate[p][d] = "waiting"
  /\ GateOutcome(bull[d]) # "waiting"
  /\ LET g == [gate[p] EXCEPT ![d] = GateOutcome(bull[d])] IN
       /\ gate' = [gate EXCEPT ![p] = g]
       /\ bull' = [bull EXCEPT ![p] =
                     IF \A x \in JobIds : g[x] \in {"none", "completed"}
                     THEN "wait" ELSE bull[p]]
  /\ UNCHANGED <<dlq, launchCheck, up, trackerArg, cfgAttempts, rec, attemptsMade, stalledCount,
                 jobIndex, sessionIndex, started, ended, worker, hook, faults,
                 apVars, cbVars, toolVars, dqVars, exVars>>

\* ------------------------------------------------------------------ worker
\* worker.ts:333 the worker takes the next waiting job; job.data is read once
WorkerTake(j) ==
  /\ up
  /\ worker.pc = "idle"
  /\ bull[j] = "wait"
  /\ bull' = [bull EXCEPT ![j] = "active"]
  /\ worker' = [pc |-> "launch", job |-> j, snap |-> rec[j], key |-> 0]
  /\ UNCHANGED <<dlq, launchCheck, up, trackerArg, cfgAttempts, rec, attemptsMade, stalledCount,
                 gate, jobIndex, sessionIndex, started, ended, hook, faults,
                 apVars, cbVars, toolVars, dqVars, exVars>>

\* worker.ts:126-273 a launch step before the child runs throws: depth or
\* allowlist (UnrecoverableError), active-children cap or a gateway call (Error)
WorkerThrow(unrecoverable) ==
  /\ up
  /\ worker.pc = "launch"
  /\ faults < MaxFaults
  /\ faults' = faults + 1
  /\ LET j == worker.job
         made == attemptsMade[j] + 1 IN
       /\ attemptsMade' = [attemptsMade EXCEPT ![j] = made]
       /\ bull' = [bull EXCEPT ![j] = AfterLaunchError(unrecoverable, made)]
  /\ worker' = IdleWorker
  /\ UNCHANGED <<dlq, launchCheck, up, trackerArg, cfgAttempts, rec, stalledCount, gate, jobIndex,
                 sessionIndex, started, ended, hook,
                 apVars, cbVars, toolVars, dqVars, exVars>>

\* worker.ts:126-167 processJob rejects the launch: the caller is at the depth
\* limit, has too many active children, or may not dispatch to the target
WorkerReject(callerDepth, activeChildren, allowed) ==
  /\ up
  /\ worker.pc = "launch"
  /\ faults < MaxFaults
  /\ faults' = faults + 1
  /\ LET j == worker.job
         made == attemptsMade[j] + 1
         reason == LaunchCheck(callerDepth, activeChildren, allowed) IN
       /\ reason # "ok"
       /\ attemptsMade' = [attemptsMade EXCEPT ![j] = made]
       /\ bull' = [bull EXCEPT ![j] = AfterLaunchError(IsUnrecoverable(reason), made)]
       /\ launchCheck' = [launchCheck EXCEPT ![j] = [reason |-> reason, attempt |-> made]]
  /\ worker' = IdleWorker
  /\ UNCHANGED <<dlq, up, trackerArg, cfgAttempts, rec, stalledCount, gate, jobIndex,
                 sessionIndex, started, ended, hook,
                 apVars, cbVars, toolVars, dqVars, exVars>>

\* part_002:144, worker.ts:331 the queue of an agent's jobs and of its worker
QueueName(agentId) == <<"agent", "-", agentId>>

\* service.ts:158 the queue setupDLQListeners subscribes to and looks jobs up in
DlqQueueName(agentId) == <<"agent", ":", agentId>>

\* the agent whose queue holds the jobs of the launch worker
LaunchAgent == CHOOSE a \in Agents : TRUE

\* service.ts:185 job.attemptsMade >= (job.opts.attempts || 3)
Exhausted(made) == made >= LaunchAttempts

\* service.ts:157-196 BullMQ publishes the failed event of the job on the
\* events stream of its queue; the "failed" handlers of the QueueEvents that
\* setupDLQListeners made for that queue name run: the job is looked up in the
\* Queue of the same name and the alert is sent when its attempts are used up
failedEvent(j) ==
  /\ up
  /\ bull[j] = "failed"
  /\ j \notin dlq.published
  /\ LET listeners == {a \in Agents : DlqQueueName(a) = QueueName(LaunchAgent)} IN
       dlq' = [published |-> dlq.published \cup {j},
               alerts |-> IF listeners # {} /\ Exhausted(attemptsMade[j])
                            THEN dlq.alerts \cup {j} ELSE dlq.alerts]
  /\ UNCHANGED <<up, trackerArg, cfgAttempts, rec, bull, attemptsMade, stalledCount, gate,
                 jobIndex, sessionIndex, started, ended, worker, hook, faults, launchCheck,
                 apVars, cbVars, toolVars, dqVars, exVars>>

\* BullMQ: the backoff delay of a failed launch attempt has passed
RetryDue(j) ==
  /\ up
  /\ bull[j] = "delayed"
  /\ bull' = [bull EXCEPT ![j] = "wait"]
  /\ UNCHANGED <<dlq, launchCheck, up, trackerArg, cfgAttempts, rec, attemptsMade, stalledCount, gate,
                 jobIndex, sessionIndex, started, ended, worker, hook, faults,
                 apVars, cbVars, toolVars, dqVars, exVars>>

\* worker.ts:170-291 steps 4-12: a fresh childSessionKey, the `agent` call
\* starts the child session, registerSubagentRun
WorkerStartChild ==
  /\ up
  /\ worker.pc = "launch"
  /\ FreeKeys # {}
  /\ LET k == Min(FreeKeys) IN
       /\ started' = [started EXCEPT ![k] = worker.job]
       /\ worker' = [worker EXCEPT !.pc = "started", !.key = k]
  /\ UNCHANGED <<dlq, launchCheck, ended, up, trackerArg, cfgAttempts, rec, bull, attemptsMade, stalledCount,
                 gate, jobIndex, sessionIndex, hook, faults,
                 apVars, cbVars, toolVars, dqVars, exVars>>

\* worker.ts:278-300: the child runs and step 12 (registerSubagentRun) or the
\* updateData of step 13 throws.  processJob rejects with an ordinary Error and
\* BullMQ counts a failed launch attempt (queue-config.ts:21-25)
WorkerThrowAfterStart ==
  /\ up
  /\ worker.pc = "started"
  /\ faults < MaxFaults
  /\ faults' = faults + 1
  /\ LET j == worker.job
         made == attemptsMade[j] + 1 IN
       /\ attemptsMade' = [attemptsMade EXCEPT ![j] = made]
       /\ bull' = [bull EXCEPT ![j] = AfterLaunchError(FALSE, made)]
  /\ worker' = IdleWorker
  /\ UNCHANGED <<dlq, launchCheck, up, trackerArg, cfgAttempts, rec, stalledCount, gate, jobIndex,
                 sessionIndex, started, ended, hook,
                 apVars, cbVars, toolVars, dqVars, exVars>>

\* worker.ts:293-300 step 13
WorkerUpdateData ==
  /\ up
  /\ worker.pc = "started"
  /\ rec' = [rec EXCEPT ![worker.job] = LaunchedRecord(worker.snap, worker.key)]
  /\ worker' = [worker EXCEPT !.pc = "updated"]
  /\ UNCHANGED <<dlq, launchCheck, up, trackerArg, cfgAttempts, bull, attemptsMade, stalledCount, gate,
                 jobIndex, sessionIndex, started, ended, hook, faults,
                 apVars, cbVars, toolVars, dqVars, exVars>>

\* worker.ts:302-305 step 14, only when createWorkers was given a jobTracker
WorkerIndex ==
  /\ up
  /\ worker.pc = "updated"
  /\ trackerArg
  /\ sessionIndex' = [sessionIndex EXCEPT ![worker.key] = worker.job]
  /\ worker' = [worker EXCEPT !.pc = "indexed"]
  /\ UNCHANGED <<dlq, launchCheck, up, trackerArg, cfgAttempts, rec, bull, attemptsMade, stalledCount,
                 gate, jobIndex, started, ended, hook, faults,
                 apVars, cbVars, toolVars, dqVars, exVars>>

\* worker.ts:307-314 processJob returns the run id: BullMQ marks the job
\* completed, which means "child launched"
WorkerReturn ==
  /\ up
  /\ worker.pc = IF trackerArg THEN "indexed" ELSE "updated"
  /\ bull' = [bull EXCEPT ![worker.job] = "completed"]
  /\ worker' = IdleWorker
  /\ UNCHANGED <<dlq, launchCheck, up, trackerArg, cfgAttempts, rec, attemptsMade, stalledCount, gate,
                 jobIndex, sessionIndex, started, ended, hook, faults,
                 apVars, cbVars, toolVars, dqVars, exVars>>

\* --------------------------------------------------------- agent_end hook
\* The session host: a started child session ends, with success or not.  The
\* agent_end event of an ended session may be delivered more than once.
SessionEnd(k, ok) ==
  /\ up
  /\ started[k] # 0
  /\ ended[k] = "running"
  /\ ended' = [ended EXCEPT ![k] = IF ok THEN "ok" ELSE "failed"]
  /\ UNCHANGED <<dlq, launchCheck, up, trackerArg, cfgAttempts, rec, bull, attemptsMade, stalledCount,
                 gate, jobIndex, sessionIndex, started, worker, hook, faults,
                 apVars, cbVars, toolVars, dqVars, exVars>>

\* hooks.ts:87-128 + part_002:375-389: the hook reads bull:session-index and
\* the job.  Without an index entry updateJobBySessionKey returns false, the
\* runId fallback (hooks.ts:131-138) looks up the uuid of the session key,
\* which is no job id, and handleAgentFailureRetry finds nothing to resolve
\* (hooks.ts:220-224): the event changes nothing.
AgentEnd(h, k) ==
  /\ up
  /\ ended[k] # "running"
  /\ hook[h].pc = "idle"
  /\ \A g \in Hooks : g < h => hook[g].pc # "idle"
  /\ LET j == sessionIndex[k] IN
       hook' = IF j = 0 THEN hook
               ELSE [hook EXCEPT ![h] = [pc |-> "update", key |-> k, success |-> (ended[k] = "ok"),
                                         job |-> j, snap |-> rec[j]]]
  /\ UNCHANGED <<dlq, launchCheck, up, trackerArg, cfgAttempts, rec, bull, attemptsMade, stalledCount,
                 gate, jobIndex, sessionIndex, started, ended, worker, faults,
                 apVars, cbVars, toolVars, dqVars, exVars>>

\* part_002:390 the write of updateJobBySessionKey; hooks.ts:146-172: result
\* capture needs job.data.storeResult, which createJob (part_002:186-209) never
\* stores, so a success ends here; a failure goes on to the retry handler
HookUpdate(h) ==
  /\ up
  /\ hook[h].pc = "update"
  /\ rec' = [rec EXCEPT ![hook[h].job] = EndedRecord(hook[h].snap, hook[h].success)]
  /\ hook' = [hook EXCEPT ![h] = IF hook[h].success THEN IdleHook
                                 ELSE [hook[h] EXCEPT !.pc = "retry"]]
  /\ UNCHANGED <<dlq, launchCheck, up, trackerArg, cfgAttempts, bull, attemptsMade, stalledCount, gate,
                 jobIndex, sessionIndex, started, ended, worker, faults,
                 apVars, cbVars, toolVars, dqVars, exVars>>

\* hooks.ts:213-253 handleAgentFailureRetry: resolveJobFromSessionKey reads the
\* job again.  With retries left the handler evaluates `queue.add(...)`
\* (hooks.ts:236) where no `queue` is in scope (line 226 destructures job,
\* jobId and queueName only): a ReferenceError, caught at hooks.ts:284, so no
\* job is added and the record is left as it is.
HookRetryResolve(h) ==
  /\ up
  /\ hook[h].pc = "retry"
  /\ LET data == rec[hook[h].job] IN
       hook' = [hook EXCEPT ![h] =
                  IF HasRetriesLeft(data.retryCount, cfgAttempts) THEN IdleHook
                  ELSE [hook[h] EXCEPT !.pc = "permanent", !.snap = data]]
  /\ UNCHANGED <<dlq, launchCheck, up, trackerArg, cfgAttempts, rec, bull, attemptsMade, stalledCount,
                 gate, jobIndex, sessionIndex, started, ended, worker, faults,
                 apVars, cbVars, toolVars, dqVars, exVars>>

\* hooks.ts:270-283 no retries remain
HookPermanent(h) ==
  /\ up
  /\ hook[h].pc = "permanent"
  /\ rec' = [rec EXCEPT ![hook[h].job] = PermanentRecord(hook[h].snap)]
  /\ hook' = [hook EXCEPT ![h] = IdleHook]
  /\ UNCHANGED <<dlq, launchCheck, up, trackerArg, cfgAttempts, bull, attemptsMade, stalledCount, gate,
                 jobIndex, sessionIndex, started, ended, worker, faults,
                 apVars, cbVars, toolVars, dqVars, exVars>>

\* ------------------------------------------------------- kill and restart
\* The process is killed: the worker and the running hooks are gone, the job
\* the worker held stays in BullMQ's active set until its lock runs out
Crash ==
  /\ up
  /\ faults < MaxFaults
  /\ faults' = faults + 1
  /\ up' = FALSE
  /\ worker' = IdleWorker
  /\ hook' = [h \in Hooks |-> IdleHook]
  /\ UNCHANGED <<dlq, launchCheck, trackerArg, cfgAttempts, rec, bull, attemptsMade, stalledCount, gate,
                 jobIndex, sessionIndex, started, ended,
                 apVars, cbVars, toolVars, dqVars, exVars>>

\* service.ts:27-99 start: recoverInterruptedJobs (service.ts:203-247), then
\* createWorkers
start ==
  /\ ~up
  /\ up' = TRUE
  /\ rec' = [j \in JobIds |-> IF bull[j] = "active" THEN RecoveredRecord(rec[j]) ELSE rec[j]]
  /\ UNCHANGED <<dlq, launchCheck, trackerArg, cfgAttempts, bull, attemptsMade, stalledCount, gate,
                 jobIndex, sessionIndex, started, ended, worker, hook, faults,
                 apVars, cbVars, toolVars, dqVars, exVars>>

\* queue-config.ts:11-13 a job left in the active set by a dead worker loses
\* its lock; the stall check puts it back to wait up to maxStalledCount times
StallCheck(j) ==
  /\ up
  /\ bull[j] = "active"
  /\ worker.job # j
  /\ IF stalledCount[j] < MaxStalledCount
     THEN /\ bull' = [bull EXCEPT ![j] = "wait"]
          /\ stalledCount' = [stalledCount EXCEPT ![j] = @ + 1]
     ELSE /\ bull' = [bull EXCEPT ![j] = "failed"]
          /\ UNCHANGED stalledCount
  /\ UNCHANGED <<dlq, launchCheck, up, trackerArg, cfgAttempts, rec, attemptsMade, gate, jobIndex,
                 sessionIndex, started, ended, worker, hook, faults,
                 apVars, cbVars, toolVars, dqVars, exVars>>

NextJob ==
  \/ \E deps \in SUBSET JobIds : createJob(deps)
  \/ \E p \in JobIds, d \in JobIds : processGate(p, d)
  \/ \E j \in JobIds : WorkerTake(j)
  \/ \E u \in BOOLEAN : WorkerThrow(u)
  \/ \E callerDepth \in 0..DefaultMaxSpawnDepth,
        activeChildren \in {DefaultMaxChildren - 1, DefaultMaxChildren},
        allowed \in BOOLEAN : WorkerReject(callerDepth, activeChildren, allowed)
  \/ \E j \in JobIds : RetryDue(j)
  \/ WorkerStartChild
  \/ WorkerThrowAfterStart
  \/ WorkerUpdateData
  \/ WorkerIndex
  \/ WorkerReturn
  \/ \E k \in SessionKeys, ok \in BOOLEAN : SessionEnd(k, ok)
  \/ \E h \in Hooks, k \in SessionKeys : AgentEnd(h, k)
  \/ \E h \in Hooks : HookUpdate(h)
  \/ \E h \in Hooks : HookRetryResolve(h)
  \/ \E h \in Hooks : HookPermanent(h)
  \/ Crash
  \/ start
  \/ \E j \in JobIds : StallCheck(j)

\* =============================================================== approvals
Absent == [status |-> "absent", linked |-> FALSE]

\* queue-dispatch.ts:722-738 the record as the dispatch tool stores it
PendingRecord == [status |-> "pending", linked |-> FALSE]

\* a call: where it stands, the status its pre-read saw (pre), the record it
\* holds (snap), whether its CAS returned ok, whether it wrote to the store,
\* and what it returned (result, with the status named in the message)
IdleOp == [pc |-> "idle", kind |-> "none", pre |-> "none", snap |-> Absent,
           casOk |-> FALSE, wrote |-> FALSE, result |-> "none", saw |-> "none",
           entry |-> "none", actor |-> ""]

\* Discord users: the sender of a command or the user who reacted ("" when the
\* event carries no id)
Users == {"kevin", "mallory", ""}

\* the handlers: /approve (approval-commands.ts:76-226, part_010:30-66),
\* /reject as approval-commands.ts:232-317 has it (read, check, set),
\* /reject as part_010:72-111 has it (executeReject), and the two reactions
\* (reaction-handler.ts:118-203)
Entries == {"approve_command", "reject_command", "reject_command_cas",
            "reaction_approve", "reaction_reject"}

KindOf(entry) ==
  IF entry \in {"approve_command", "reaction_approve"} THEN "approve" ELSE "reject"

\* approval-commands.ts:83-94, 241-252, part_010:39-49, 82-92,
\* reaction-handler.ts:139-141
AuthorizedFailOpen(approvers, senderId) ==
  approvers = {} \/ senderId \in approvers

Authorized(approvers, senderId) ==
  /\ approvers # {}
  /\ senderId # ""
  /\ senderId \in approvers

InitApproval ==
  /\ apRec = PendingRecord
  /\ apTtl = "orig"
  /\ apPending = TRUE
  /\ apAge = "fresh"
  /\ apSpawns = 0
  /\ apChildren = 0
  /\ op = [o \in Ops |-> IdleOp]
  /\ authorizedApprovers \in {{}, {"kevin"}}

\* approval-logic.ts:32-46 CAS_APPROVE_LUA: the script's return value and the
\* record it leaves
CAS_APPROVE_LUA(record) ==
  IF record = Absent THEN [ret |-> "nil", rec |-> record]
  ELSE IF record.status # "pending" /\ record.status # "approved_spawn_failed"
       THEN [ret |-> record.status, rec |-> record]
       ELSE [ret |-> "ok", rec |-> [record EXCEPT !.status = "approved"]]

\* approval-logic.ts:63-76 CAS_REJECT_LUA
CAS_REJECT_LUA(record) ==
  IF record = Absent THEN [ret |-> "nil", rec |-> record]
  ELSE IF record.status # "pending"
       THEN [ret |-> record.status, rec |-> record]
       ELSE [ret |-> "ok", rec |-> [record EXCEPT !.status = "rejected"]]

\* approval-logic.ts:162, 310  Date.now() - createdAt > ttlMs
IsExpired(age) == age = "past"

\* approval-logic.ts:166-168, 314-316 the pre-read record with status expired
ExpiredRecord(recordPre) == [recordPre EXCEPT !.status = "expired"]

Finish(o, res, status) ==
  [op[o] EXCEPT !.pc = "done", !.result = res, !.saw = status]

\* The handler up to its first read of the record: the authorization check
\* (approval-commands.ts:83-94, 241-252, part_010:39-49, 82-92,
\* reaction-handler.ts:139-152), then the pre-read and the expiry check
\* (approval-logic.ts:139-178, 295-322, approval-commands.ts:99-131, 256-291).
\* /reject of approval-commands.ts returns at a record that is not pending
\* before it looks at the expiry (266-269).
preRead(o, entry, senderId) ==
  /\ op[o].pc = "idle"
  /\ \A q \in Ops : q < o => op[q].pc # "idle"
  /\ LET call == [op[o] EXCEPT !.kind = KindOf(entry), !.entry = entry,
                               !.actor = senderId] IN
     op' = [op EXCEPT ![o] =
       IF ~Authorized(authorizedApprovers, senderId)
       THEN [call EXCEPT !.pc = "done", !.result = "unauthorized"]
       ELSE IF apRec = Absent
       THEN [call EXCEPT !.pc = "done", !.result = "notfound", !.saw = "absent",
                         !.pre = "absent"]
       ELSE IF entry = "reject_command" /\ apRec.status # "pending"
       THEN [call EXCEPT !.pc = "done", !.result = "already", !.saw = apRec.status,
                         !.pre = apRec.status]
       ELSE [call EXCEPT !.pre = apRec.status, !.snap = apRec,
                         !.pc = IF IsExpired(apAge) THEN "expire"
                                ELSE IF entry = "reject_command" THEN "reject_set"
                                ELSE "cas"]]
  /\ UNCHANGED <<apRec, apTtl, apPending, apAge, apSpawns, apChildren, authorizedApprovers, jobVars, cbVars, toolVars, dqVars, exVars>>

\* approval-commands.ts:293-300 /reject writes the record it read, with status
\* rejected: set(key, record, "KEEPTTL")
rejectSet(o) ==
  /\ op[o].pc = "reject_set"
  /\ apRec' = [op[o].snap EXCEPT !.status = "rejected"]
  /\ op' = [op EXCEPT ![o] = [op[o] EXCEPT !.pc = "reject_zrem", !.wrote = TRUE]]
  /\ UNCHANGED <<apTtl, apPending, apAge, apSpawns, apChildren, authorizedApprovers, jobVars, cbVars, toolVars, dqVars, exVars>>

\* the id stays in the sorted set
zremKeeps(member) == member

\* approval-logic.ts:169, 234, 318, 344  zrem("orch:approvals:pending", id):
\* whether the id is a member afterwards
zrem(member) == FALSE

\* approval-logic.ts:166-168, 314-316  set(key, recordPre, "EX", 86400)
markExpired(o) ==
  /\ op[o].pc = "expire"
  /\ apRec' = ExpiredRecord(op[o].snap)
  /\ apTtl' = "day"
  /\ op' = [op EXCEPT ![o] = [op[o] EXCEPT !.pc = "expire_zrem", !.wrote = TRUE]]
  /\ UNCHANGED <<apPending, apAge, apSpawns, apChildren, authorizedApprovers, jobVars, cbVars, toolVars, dqVars, exVars>>

\* approval-logic.ts:169-177, 317-321  zrem of the sorted sets, then return
expiredZrem(o) ==
  /\ op[o].pc = "expire_zrem"
  /\ apPending' = zrem(apPending)
  /\ op' = [op EXCEPT ![o] = Finish(o, "expired", "expired")]
  /\ UNCHANGED <<apRec, apTtl, apAge, apSpawns, apChildren, authorizedApprovers, jobVars, cbVars, toolVars, dqVars, exVars>>

\* approval-logic.ts:181-208 (approve) and 325-341 (reject): the CAS script
\* runs atomically in the store; anything but "ok" ends the call
cas(o) ==
  /\ op[o].pc = "cas"
  /\ LET r == IF op[o].kind = "approve" THEN CAS_APPROVE_LUA(apRec)
              ELSE CAS_REJECT_LUA(apRec) IN
       /\ apRec' = r.rec
       /\ op' = [op EXCEPT ![o] =
            IF r.ret = "nil" THEN Finish(o, "notfound", "absent")
            ELSE IF r.ret # "ok" THEN Finish(o, "already", r.ret)
            ELSE [op[o] EXCEPT !.casOk = TRUE, !.wrote = TRUE,
                               !.pc = IF op[o].kind = "approve" THEN "refetch"
                                      ELSE "reject_zrem"]]
  /\ UNCHANGED <<apTtl, apPending, apAge, apSpawns, apChildren, authorizedApprovers, jobVars, cbVars, toolVars, dqVars, exVars>>

\* approval-logic.ts:211-223 the approve call reads the record again
refetch(o) ==
  /\ op[o].pc = "refetch"
  /\ op' = [op EXCEPT ![o] =
       IF apRec = Absent THEN Finish(o, "disappeared", "absent")
       ELSE [op[o] EXCEPT !.pc = "spawn", !.snap = apRec]]
  /\ UNCHANGED <<apRec, apTtl, apPending, apAge, apSpawns, apChildren, authorizedApprovers, jobVars, cbVars, toolVars, dqVars, exVars>>

\* how a call of spawnApprovedAgent ends (part_007:421-453): it returns after
\* the `agent` call started the child; it throws before the child is started;
\* or the try block of approval-logic.ts:228-247 throws although the child
\* was started: the answer of the `agent` call does not arrive within
\* timeoutMs, registerSubagentRun throws, or the set or zrem that follow the
\* spawn in the same try block fail
SpawnOutcomes == {"returned", "threw", "started_threw"}

\* part_007:421-436: the session host started the child session
ChildStarted(outcome) == outcome \in {"returned", "started_threw"}

\* approval-logic.ts:228-232, 248-253 spawnApprovedAgent returns or throws
spawnApprovedAgent(o, outcome) ==
  /\ op[o].pc = "spawn"
  /\ apSpawns' = IF outcome = "returned" THEN apSpawns + 1 ELSE apSpawns
  /\ apChildren' = IF ChildStarted(outcome) THEN apChildren + 1 ELSE apChildren
  /\ op' = [op EXCEPT ![o] =
       IF outcome = "returned" THEN [op[o] EXCEPT !.pc = "link", !.snap = [op[o].snap EXCEPT !.linked = TRUE]]
       ELSE [op[o] EXCEPT !.pc = "spawn_failed",
                          !.snap = [op[o].snap EXCEPT !.status = "approved_spawn_failed"]]]
  /\ UNCHANGED <<apRec, apTtl, apPending, apAge, authorizedApprovers, jobVars, cbVars, toolVars, dqVars, exVars>>

\* approval-logic.ts:233  set(key, record, "KEEPTTL") with the run linked
linkSpawn(o) ==
  /\ op[o].pc = "link"
  /\ apRec' = op[o].snap
  /\ op' = [op EXCEPT ![o] = [op[o] EXCEPT !.pc = "approve_zrem"]]
  /\ UNCHANGED <<apTtl, apPending, apAge, apSpawns, apChildren, authorizedApprovers, jobVars, cbVars, toolVars, dqVars, exVars>>

\* approval-logic.ts:234-247
approveZrem(o) ==
  /\ op[o].pc = "approve_zrem"
  /\ apPending' = zrem(apPending)
  /\ op' = [op EXCEPT ![o] = Finish(o, "success", "approved")]
  /\ UNCHANGED <<apRec, apTtl, apAge, apSpawns, apChildren, authorizedApprovers, jobVars, cbVars, toolVars, dqVars, exVars>>

\* approval-logic.ts:253-266  status approved_spawn_failed is written back
writeSpawnFailed(o) ==
  /\ op[o].pc = "spawn_failed"
  /\ apRec' = op[o].snap
  /\ op' = [op EXCEPT ![o] = Finish(o, "spawn_failed", "approved_spawn_failed")]
  /\ UNCHANGED <<apTtl, apPending, apAge, apSpawns, apChildren, authorizedApprovers, jobVars, cbVars, toolVars, dqVars, exVars>>

\* approval-logic.ts:344-354, approval-commands.ts:301-316
rejectZrem(o) ==
  /\ op[o].pc = "reject_zrem"
  /\ apPending' = zrem(apPending)
  /\ op' = [op EXCEPT ![o] = Finish(o, "success", "rejected")]
  /\ UNCHANGED <<apRec, apTtl, apAge, apSpawns, apChildren, authorizedApprovers, jobVars, cbVars, toolVars, dqVars, exVars>>

\* The clock passes createdAt + ttlMs.  createdAt is taken before the
\* notification is sent and the key is stored afterwards with EX ttlSeconds
\* (queue-dispatch.ts:721, 783-790), so the key outlives this moment
TtlPasses ==
  /\ apAge = "fresh"
  /\ apAge' = "past"
  /\ UNCHANGED <<apRec, apTtl, apPending, apSpawns, apChildren, op, authorizedApprovers, jobVars, cbVars, toolVars, dqVars, exVars>>

\* The store drops the key when the expiry set at creation runs out
KeyExpires ==
  /\ apAge = "past"
  /\ apTtl = "orig"
  /\ apRec # Absent
  /\ apRec' = Absent
  /\ UNCHANGED <<apTtl, apPending, apAge, apSpawns, apChildren, op, authorizedApprovers, jobVars, cbVars, toolVars, dqVars, exVars>>

NextApproval ==
  \/ \E o \in Ops, e \in Entries, u \in Users : preRead(o, e, u)
  \/ \E o \in Ops : rejectSet(o)
  \/ \E o \in Ops : markExpired(o)
  \/ \E o \in Ops : expiredZrem(o)
  \/ \E o \in Ops : cas(o)
  \/ \E o \in Ops : refetch(o)
  \/ \E o \in Ops, outcome \in SpawnOutcomes : spawnApprovedAgent(o, outcome)
  \/ \E o \in Ops : linkSpawn(o)
  \/ \E o \in Ops : approveZrem(o)
  \/ \E o \in Ops : writeSpawnFailed(o)
  \/ \E o \in Ops : rejectZrem(o)
  \/ TtlPasses
  \/ KeyExpires

\* ========================================================= circuit breaker
InitBreaker ==
  /\ cbState = "closed"
  /\ cbFailures = 0
  /\ cbLastFailure = 0
  /\ cbNow = 0
  /\ cbInflight = 0
  /\ cbLast = "none"
  /\ cbForcedAt = -1
  /\ cbStreak = 0
  /\ cbHalf = "none"

\* part_009:29  Date.now() - this.lastFailure > this.config.resetTimeout
ResetDue(now, lastFailure) == now - lastFailure > ResetTimeout

\* the breaker opens one failure late
ShouldOpenLate(failures) == failures > FailMax

\* the breaker opens two failures late
ShouldOpenTwoLate(failures) == failures > FailMax + 1

\* part_009:53  this.failures >= this.config.failMax
ShouldOpen(failures) == failures >= FailMax

\* part_009:28-39 dispatch up to the call of fn(): an open breaker either
\* turns half-open and goes on to fn, or returns fallback()
dispatch ==
  /\ cbInflight < MaxInflight
  /\ IF cbState = "open" /\ ~ResetDue(cbNow, cbLastFailure)
     THEN /\ cbLast' = "fallback"
          /\ UNCHANGED <<cbState, cbInflight>>
     ELSE /\ cbState' = IF cbState = "open" THEN "half-open" ELSE cbState
          /\ cbInflight' = cbInflight + 1
          /\ cbLast' = "primary"
  /\ UNCHANGED <<cbFailures, cbLastFailure, cbNow, cbForcedAt, cbStreak, cbHalf,
                 jobVars, apVars, toolVars, dqVars, exVars>>

\* part_009:39-45 fn() resolved
dispatchResolved ==
  /\ cbInflight > 0
  /\ cbInflight' = cbInflight - 1
  /\ cbState' = "closed"
  /\ cbFailures' = 0
  /\ cbStreak' = 0
  /\ cbHalf' = IF cbState = "half-open" THEN "success" ELSE cbHalf
  /\ UNCHANGED <<cbLastFailure, cbNow, cbLast, cbForcedAt, jobVars, apVars, toolVars, dqVars, exVars>>

\* part_009:46-58 fn() rejected
dispatchRejected ==
  /\ cbInflight > 0
  /\ cbInflight' = cbInflight - 1
  /\ cbFailures' = cbFailures + 1
  /\ cbLastFailure' = cbNow
  /\ cbState' = IF ShouldOpen(cbFailures + 1) THEN "open" ELSE cbState
  /\ cbStreak' = cbStreak + 1
  /\ cbHalf' = IF cbState = "half-open" THEN "failure" ELSE cbHalf
  /\ UNCHANGED <<cbNow, cbLast, cbForcedAt, jobVars, apVars, toolVars, dqVars, exVars>>

\* forceOpen returns early in no state
AlreadyOpenNever(state) == FALSE

\* part_009:68  if (this.state === 'open') return
AlreadyOpen(state) == state = "open"

\* part_009:67-73 forceOpen
forceOpen ==
  /\ cbForcedAt' = cbNow
  /\ IF AlreadyOpen(cbState)
     THEN UNCHANGED <<cbState, cbLastFailure, cbFailures>>
     ELSE /\ cbState' = "open"
          /\ cbLastFailure' = cbNow
          /\ cbFailures' = FailMax
  /\ UNCHANGED <<cbNow, cbInflight, cbLast, cbStreak, cbHalf, jobVars, apVars, toolVars, dqVars, exVars>>

\* time passes
Tick ==
  /\ cbNow < MaxTime
  /\ cbNow' = cbNow + 1
  /\ UNCHANGED <<cbState, cbFailures, cbLastFailure, cbInflight, cbLast, cbForcedAt,
                 cbStreak, cbHalf, jobVars, apVars, toolVars, dqVars, exVars>>

NextBreaker ==
  \/ dispatch
  \/ dispatchResolved
  \/ dispatchRejected
  \/ forceOpen
  \/ Tick

\* ====================================================== createJob, tracking
NoTrk == [jobId |-> 0, status |-> "none", openclawRunId |-> 0, bull |-> "none"]

\* cleanupStaleIndexEntries is not running
IdleSweep == [pc |-> "idle", entries |-> [i \in TrkIds |-> 0], todo |-> {}, stale |-> {},
              runs |-> 0]

IdleCall == [pc |-> "idle", run |-> 0, target |-> 0, id |-> 0]

InitTrack ==
  /\ trkTarget = [r \in Runs |-> 0]
  /\ trkQueue = [a \in Agents |-> [i \in TrkIds |-> NoTrk]]
  /\ trkIndex = [i \in TrkIds |-> 0]
  /\ trkNext = 0
  /\ trkCall = [c \in Calls |-> IdleCall]
  /\ trkSweep = IdleSweep

\* no jobId option is passed: BullMQ generates an id for every add
JobIdAlwaysFresh(runId, fresh) == fresh

\* part_002:211-215  addOpts.jobId = params.runId when a runId is given,
\* otherwise BullMQ generates the id
JobIdFor(runId, fresh) == IF runId # 0 THEN runId ELSE fresh

\* part_002:186-195  jobData: jobId = params.runId ?? '', status "queued",
\* openclawRunId = params.runId; bull is the BullMQ state of the added job
TrackedData(runId) ==
  [jobId |-> runId, status |-> "queued", openclawRunId |-> runId, bull |-> "wait"]

\* BullMQ Queue.add: a job whose id is already in the queue is left as it is
QueueAdd(queue, id, data) ==
  IF queue[id] # NoTrk THEN queue ELSE [queue EXCEPT ![id] = data]

\* hooks.ts:44-69 after_tool_call of a sessions_spawn: createJob with the
\* runId of the run and the target of the tool call.  A run has one target;
\* the hook may be invoked more than once for it
afterToolCall(c, r, a) ==
  /\ trkCall[c].pc = "idle"
  /\ \A q \in Calls : q < c => trkCall[q].pc # "idle"
  /\ trkTarget[r] \in {0, a}
  /\ trkTarget' = [trkTarget EXCEPT ![r] = a]
  /\ trkCall' = [trkCall EXCEPT ![c] = [pc |-> "add", run |-> r, target |-> a, id |-> 0]]
  /\ UNCHANGED <<trkQueue, trkIndex, trkNext, trkSweep, jobVars, apVars, cbVars, dqVars, exVars>>

\* queue-dispatch.ts:866-890 the dispatch tool: createJob without a runId
queueDispatchCreate(c, a) ==
  /\ trkCall[c].pc = "idle"
  /\ \A q \in Calls : q < c => trkCall[q].pc # "idle"
  /\ trkCall' = [trkCall EXCEPT ![c] = [pc |-> "add", run |-> 0, target |-> a, id |-> 0]]
  /\ UNCHANGED <<trkTarget, trkQueue, trkIndex, trkNext, trkSweep, jobVars, apVars, cbVars, dqVars, exVars>>

\* part_002:184-221 createJob: queue.add("agent-run", jobData, addOpts)
createJobAdd(c) ==
  /\ trkCall[c].pc = "add"
  /\ LET fresh == MaxRuns + trkNext + 1
         id == JobIdFor(trkCall[c].run, fresh)
         a == trkCall[c].target IN
       /\ trkQueue' = [trkQueue EXCEPT ![a] = QueueAdd(trkQueue[a], id, TrackedData(trkCall[c].run))]
       /\ trkNext' = IF id = fresh THEN trkNext + 1 ELSE trkNext
       /\ trkCall' = [trkCall EXCEPT ![c] =
            [trkCall[c] EXCEPT !.id = id,
                               !.pc = IF trkCall[c].run = 0 THEN "update" ELSE "index"]]
  /\ UNCHANGED <<trkTarget, trkIndex, trkSweep, jobVars, apVars, cbVars, dqVars, exVars>>

\* part_002:223-226  without a runId: job.updateData({...jobData, jobId})
createJobUpdate(c) ==
  /\ trkCall[c].pc = "update"
  /\ trkQueue' = [trkQueue EXCEPT ![trkCall[c].target][trkCall[c].id] =
                    [TrackedData(0) EXCEPT !.jobId = trkCall[c].id,
                       !.bull = trkQueue[trkCall[c].target][trkCall[c].id].bull]]
  /\ trkCall' = [trkCall EXCEPT ![c] = [trkCall[c] EXCEPT !.pc = "index"]]
  /\ UNCHANGED <<trkTarget, trkIndex, trkNext, trkSweep, jobVars, apVars, cbVars, dqVars, exVars>>

\* part_002:228-233, 307-313 indexJob, then createJob returns.  The hset is
\* a command of its own after the add; when it fails the error is logged and
\* createJob returns all the same (part_002:310-312)
indexJob(c, ok) ==
  /\ trkCall[c].pc = "index"
  /\ trkIndex' = IF ok THEN [trkIndex EXCEPT ![trkCall[c].id] = trkCall[c].target]
                       ELSE trkIndex
  /\ trkCall' = [trkCall EXCEPT ![c] = [trkCall[c] EXCEPT !.pc = "done"]]
  /\ UNCHANGED <<trkTarget, trkQueue, trkNext, trkSweep, jobVars, apVars, cbVars, dqVars, exVars>>

NextTrack ==
  \/ \E c \in Calls, r \in Runs, a \in Agents : afterToolCall(c, r, a)
  \/ \E c \in Calls, a \in Agents : queueDispatchCreate(c, a)
  \/ \E c \in Calls : createJobAdd(c)
  \/ \E c \in Calls : createJobUpdate(c)
  \/ \E c \in Calls, ok \in BOOLEAN : indexJob(c, ok)

\* the run id the gateway gives the child session a worker starts for the
\* job i: one that no earlier run has
WorkerRunId(i) == MaxRuns + MaxCalls + i

\* worker.ts:321-340 createWorkers, 84-315 processJob: the worker of the queue
\* agent-<a> takes any waiting job of that queue.  processJob does not look at
\* openclawRunId or status.  The allowlist check (worker.ts:147-166) is made
\* for the requester the job data names, and either rejects the launch with an
\* UnrecoverableError or lets it through: then the gateway starts a child
\* session and step 12 writes its run id and status "active" to the job
processJob(a, i, allowed) ==
  /\ trkQueue[a][i].bull = "wait"
  /\ trkQueue' = [trkQueue EXCEPT ![a][i] =
       IF allowed
       THEN [@ EXCEPT !.bull = "completed", !.status = "active",
                      !.openclawRunId = WorkerRunId(i)]
       ELSE [@ EXCEPT !.bull = "failed"]]
  /\ UNCHANGED <<trkTarget, trkIndex, trkNext, trkCall, trkSweep, jobVars, apVars, cbVars, dqVars, exVars>>

\* queue-config.ts:27-34 removeOnComplete, removeOnFail: a finished job is
\* removed from its queue once it is old enough, long after the createJob that
\* added it has returned
jobRemoved(a, i) ==
  /\ trkQueue[a][i].bull \in {"completed", "failed"}
  /\ \A c \in Calls : trkCall[c].id = i => trkCall[c].pc = "done"
  /\ trkQueue' = [trkQueue EXCEPT ![a][i] = NoTrk]
  /\ UNCHANGED <<trkTarget, trkIndex, trkNext, trkCall, trkSweep, jobVars, apVars, cbVars, dqVars, exVars>>

\* part_002:59-66 cleanupStaleIndexEntries: hgetall("bull:job-index") takes a
\* snapshot of the index
cleanupScan ==
  /\ trkSweep.pc = "idle"
  /\ trkSweep.runs < MaxSweeps
  /\ trkSweep' = [pc |-> "lookup", entries |-> trkIndex,
                  todo |-> {i \in TrkIds : trkIndex[i] # 0}, stale |-> {},
                  runs |-> trkSweep.runs + 1]
  /\ UNCHANGED <<trkTarget, trkQueue, trkIndex, trkNext, trkCall, jobVars, apVars, cbVars, dqVars, exVars>>

\* part_002:68-79 the key is stale when Job.fromId finds no job in the queue
\* the snapshot names, and also when the lookup throws
IsStale(job, threw) == threw \/ job = NoTrk

\* part_002:67-80 one entry of the snapshot is looked up
cleanupLookup(i, threw) ==
  /\ trkSweep.pc = "lookup"
  /\ i \in trkSweep.todo
  /\ trkSweep' = [trkSweep EXCEPT
       !.todo = @ \ {i},
       !.stale = IF IsStale(trkQueue[trkSweep.entries[i]][i], threw)
                   THEN @ \cup {i} ELSE @]
  /\ UNCHANGED <<trkTarget, trkQueue, trkIndex, trkNext, trkCall, jobVars, apVars, cbVars, dqVars, exVars>>

\* part_002:81-90 hdel of the stale keys; the snapshot is smaller than
\* CLEANUP_BATCH_SIZE, so they go in the one batch after the loop
cleanupHdel ==
  /\ trkSweep.pc = "lookup"
  /\ trkSweep.todo = {}
  /\ trkIndex' = [i \in TrkIds |-> IF i \in trkSweep.stale THEN 0 ELSE trkIndex[i]]
  /\ trkSweep' = [trkSweep EXCEPT !.pc = "idle"]
  /\ UNCHANGED <<trkTarget, trkQueue, trkNext, trkCall, jobVars, apVars, cbVars, dqVars, exVars>>

\* the createJob calls that run beside the workers and the cleanup
QueueCalls == 1..MaxQueueCalls

NextQueue ==
  \/ \E c \in QueueCalls, r \in Runs, a \in Agents : afterToolCall(c, r, a)
  \/ \E c \in QueueCalls, a \in Agents : queueDispatchCreate(c, a)
  \/ \E c \in QueueCalls : createJobAdd(c)
  \/ \E c \in QueueCalls : createJobUpdate(c)
  \/ \E c \in QueueCalls, ok \in BOOLEAN : indexJob(c, ok)
  \/ \E a \in Agents, i \in TrkIds, allowed \in BOOLEAN : processJob(a, i, allowed)
  \/ \E a \in Agents, i \in TrkIds : jobRemoved(a, i)
  \/ cleanupScan
  \/ \E i \in TrkIds, threw \in BOOLEAN : cleanupLookup(i, threw)
  \/ cleanupHdel

\* ============================================== queue_dispatch, status, list
\* agents that dispatch without approval, agents that are dispatched to, and
\* the agent ids the tool context of a status or list call may carry
Dispatchers == {"lucius", "iris"}
Targets == {"iris", "nova"}
\* who dispatches to whom: allowAgents of the dispatchers
Routes == {<<"lucius", "nova">>, <<"iris", "nova">>, <<"iris", "iris">>}
Viewers == {"lucius", "Lucius", "iris", "nova", "vera"}

\* auth-helpers.ts:41
SYSTEM_AGENTS == {"lucius", "ultron", "meta", "main"}

\* String.prototype.toLowerCase on the agent ids above
toLowerCase(s) == IF s = "Lucius" THEN "lucius" ELSE s

\* auth-helpers.ts:50-52
isSystemAgent(agentId) == toLowerCase(agentId) \in SYSTEM_AGENTS

NoKey == [val |-> 0, ttl |-> -1]

NoJob == [jobId |-> 0, status |-> "none", target |-> "", dispatchedBy |-> "",
          openclawSessionKey |-> ""]

\* a queue_dispatch call: where it stands, the counter value the rate-limit
\* script returned and the counter window that value belongs to, the queue
\* depth it counted, and the status it returned
IdleDispatch == [pc |-> "idle", caller |-> "", target |-> "", current |-> 0,
                 window |-> 0, pendingCount |-> 0, result |-> "none"]

NoReply == [tool |-> "none", caller |-> "", status |-> "none", jobs |-> {}]

\* queue-dispatch.ts:722-738 caller and target of the stored approval record
ApprovalOwner == [callerAgentId |-> "iris", target |-> "nova"]

\* config-schema.ts:38-46 the rate-limit configurations examined, as
\* <<dispatchesPerMinute, maxQueueDepth>>; 0 switches a check off
RateLimitConfigs == {<<MaxRate, MaxDepth>>, <<1, 0>>, <<0, MaxDepth>>}

InitDispatch ==
  /\ \E cfg \in RateLimitConfigs :
       dispatchesPerMinute = cfg[1] /\ maxQueueDepth = cfg[2]
  /\ rlKey = [a \in Dispatchers |-> NoKey]
  /\ rlWindow = [a \in Dispatchers |-> 0]
  /\ dqCall = [c \in DCalls |-> IdleDispatch]
  /\ dqJobs = [c \in DCalls |-> NoJob]
  /\ reply = NoReply

\* queue-dispatch.ts:441-448 INCR, then EXPIRE 60 when the value is 1
RateLimitLuaSliding(key) ==
  [val |-> key.val + 1, ttl |-> RateWindow]

RATE_LIMIT_LUA(key) ==
  LET current == key.val + 1 IN
  [val |-> current, ttl |-> IF current = 1 THEN RateWindow ELSE key.ttl]

\* queue-dispatch.ts:835
RateLimitedAtLimit(current, limit) == current >= limit

RateLimited(current, limit) == current > limit

\* queue-dispatch.ts:849
DepthExceededAboveCap(pendingCount, cap) == pendingCount > cap

DepthExceeded(pendingCount, cap) == pendingCount >= cap

\* queue-dispatch.ts:847-848 wait + delayed + active of queue agent-<target>
PendingCount(target) ==
  Cardinality({j \in DCalls : /\ dqJobs[j].target = target
                              /\ dqJobs[j].status \in {"queued", "active"}})

\* queue-dispatch.ts:540-825 a call that reaches the non-approval path
queueDispatch(c, caller, target) ==
  /\ dqCall[c].pc = "idle"
  /\ IF c = 1 THEN TRUE ELSE dqCall[c - 1].pc # "idle"
  /\ dqCall' = [dqCall EXCEPT ![c] = [IdleDispatch EXCEPT !.pc = "rate",
                                        !.caller = caller, !.target = target]]
  /\ UNCHANGED <<dispatchesPerMinute, maxQueueDepth, rlWindow, rlKey, dqJobs, reply,
                 jobVars, apVars, cbVars, toolVars, exVars>>

\* queue-dispatch.ts:831-841
checkRateLimit(c) ==
  /\ dqCall[c].pc = "rate"
  /\ IF dispatchesPerMinute > 0
     THEN LET caller == dqCall[c].caller
              key == RATE_LIMIT_LUA(rlKey[caller])
              current == key.val
              window == IF rlKey[caller] = NoKey THEN rlWindow[caller] + 1
                        ELSE rlWindow[caller] IN
          /\ rlKey' = [rlKey EXCEPT ![caller] = key]
          /\ rlWindow' = [rlWindow EXCEPT ![caller] = window]
          /\ dqCall' = [dqCall EXCEPT ![c] =
               IF RateLimited(current, dispatchesPerMinute)
               THEN [@ EXCEPT !.pc = "done", !.current = current,
                              !.window = window, !.result = "rate_limited"]
               ELSE [@ EXCEPT !.pc = "depth", !.current = current,
                              !.window = window]]
     ELSE /\ dqCall' = [dqCall EXCEPT ![c] = [@ EXCEPT !.pc = "depth"]]
          /\ UNCHANGED <<rlKey, rlWindow>>
  /\ UNCHANGED <<dispatchesPerMinute, maxQueueDepth, dqJobs, reply,
                 jobVars, apVars, cbVars, toolVars, exVars>>

\* queue-dispatch.ts:843-855
checkQueueDepth(c) ==
  /\ dqCall[c].pc = "depth"
  /\ LET pendingCount == PendingCount(dqCall[c].target) IN
     dqCall' = [dqCall EXCEPT ![c] =
       IF maxQueueDepth > 0 /\ DepthExceeded(pendingCount, maxQueueDepth)
       THEN [@ EXCEPT !.pc = "done", !.pendingCount = pendingCount,
                      !.result = "queue_full"]
       ELSE [@ EXCEPT !.pc = "create", !.pendingCount = pendingCount]]
  /\ UNCHANGED <<dispatchesPerMinute, maxQueueDepth, rlWindow, rlKey, dqJobs, reply,
                 jobVars, apVars, cbVars, toolVars, exVars>>

\* queue-dispatch.ts:866-935 circuitBreaker.dispatch(createJob, fallback): the
\* job is enqueued, or the fallback spawned the agent, or both threw
dispatchViaBreaker(c, outcome) ==
  /\ dqCall[c].pc = "create"
  /\ dqCall' = [dqCall EXCEPT ![c] = [@ EXCEPT !.pc = "done", !.result = outcome]]
  /\ dqJobs' = IF outcome = "queued"
               THEN [dqJobs EXCEPT ![c] =
                       [jobId |-> c, status |-> "queued",
                        target |-> dqCall[c].target,
                        dispatchedBy |-> dqCall[c].caller,
                        openclawSessionKey |-> ""]]
               ELSE dqJobs
  /\ UNCHANGED <<dispatchesPerMinute, maxQueueDepth, rlWindow, rlKey, reply,
                 jobVars, apVars, cbVars, toolVars, exVars>>

\* worker.ts:84-300 processJob: BullMQ has moved the job to active, the worker
\* launches the agent and stores the session key of the run in job.data
workerLaunched(j) ==
  /\ dqJobs[j].status = "queued"
  /\ dqJobs' = [dqJobs EXCEPT ![j] = [@ EXCEPT !.status = "active",
                                               !.openclawSessionKey = "sk"]]
  /\ UNCHANGED <<dispatchesPerMinute, maxQueueDepth, rlWindow, rlKey, dqCall, reply,
                 jobVars, apVars, cbVars, toolVars, exVars>>

\* worker.ts:300-310 processJob returns and BullMQ moves the job to completed
jobCompleted(j) ==
  /\ dqJobs[j].status = "active"
  /\ dqJobs' = [dqJobs EXCEPT ![j] = [@ EXCEPT !.status = "completed"]]
  /\ UNCHANGED <<dispatchesPerMinute, maxQueueDepth, rlWindow, rlKey, dqCall, reply,
                 jobVars, apVars, cbVars, toolVars, exVars>>

\* Redis expiry: time passes, and a counter whose time to live is used up is
\* deleted
SecondsPass ==
  /\ \E a \in Dispatchers : rlKey[a] # NoKey
  /\ rlKey' = [a \in Dispatchers |->
                 IF rlKey[a] = NoKey \/ rlKey[a].ttl - TickSeconds <= 0
                 THEN NoKey
                 ELSE [rlKey[a] EXCEPT !.ttl = @ - TickSeconds]]
  /\ UNCHANGED <<dispatchesPerMinute, maxQueueDepth, rlWindow, dqCall, dqJobs, reply,
                 jobVars, apVars, cbVars, toolVars, exVars>>

\* auth-helpers.ts:73-82
stripNothing(result, callerAgentId) == result

stripSensitiveFields(result, callerAgentId) ==
  IF isSystemAgent(callerAgentId)
  THEN result
  ELSE [f \in DOMAIN result \ {"openclawSessionKey"} |-> result[f]]

\* queue-activity.ts:224-226, part_006:209-211
CanView(jobData, callerAgentId) ==
  \/ jobData.dispatchedBy = callerAgentId
  \/ jobData.target = callerAgentId

\* queue-activity.ts:235-270, part_006:217-243 the fields of job.data the
\* tools copy; openclawSessionKey only when it is set
JobSummary(jobData) ==
  LET base == [jobId |-> jobData.jobId, status |-> jobData.status,
               target |-> jobData.target, dispatchedBy |-> jobData.dispatchedBy] IN
  IF jobData.openclawSessionKey # ""
  THEN base @@ [openclawSessionKey |-> jobData.openclawSessionKey]
  ELSE base

\* queue-activity.ts:186-292 queue_status
queueStatus(callerAgentId, jobId) ==
  /\ LET jobData == dqJobs[jobId] IN
     reply' =
       IF jobData = NoJob
       THEN [tool |-> "queue_status", caller |-> callerAgentId,
             status |-> "not_found", jobs |-> {}]
       ELSE IF ~isSystemAgent(callerAgentId) /\ ~CanView(jobData, callerAgentId)
       THEN [tool |-> "queue_status", caller |-> callerAgentId,
             status |-> "unauthorized", jobs |-> {}]
       ELSE [tool |-> "queue_status", caller |-> callerAgentId, status |-> "ok",
             jobs |-> {stripSensitiveFields(JobSummary(jobData), callerAgentId)}]
  /\ UNCHANGED <<dispatchesPerMinute, maxQueueDepth, rlWindow, rlKey, dqCall, dqJobs,
                 jobVars, apVars, cbVars, toolVars, exVars>>

\* part_006:165-272 queue_list over the agent queues: the jobs of the queues
\* asked for that the caller may see, at most `limit` of them
queueList(callerAgentId, agentFilter, limit) ==
  /\ LET callerIsSystem == isSystemAgent(callerAgentId)
         visible == {j \in DCalls :
                       /\ dqJobs[j] # NoJob
                       /\ agentFilter \in {"", dqJobs[j].target}
                       /\ callerIsSystem \/ CanView(dqJobs[j], callerAgentId)} IN
     \E listed \in SUBSET visible :
       /\ Cardinality(listed) <= limit
       /\ reply' = [tool |-> "queue_list", caller |-> callerAgentId, status |-> "ok",
                    jobs |-> {stripSensitiveFields(JobSummary(dqJobs[j]), callerAgentId) :
                                j \in listed}]
  /\ UNCHANGED <<dispatchesPerMinute, maxQueueDepth, rlWindow, rlKey, dqCall, dqJobs,
                 jobVars, apVars, cbVars, toolVars, exVars>>

\* part_006:97-160 queue_list with status pending_approval
queueListPendingApproval(callerAgentId) ==
  /\ LET shown == /\ apPending
                  /\ apRec.status = "pending"
                  /\ \/ isSystemAgent(callerAgentId)
                     \/ ApprovalOwner.callerAgentId = callerAgentId
                     \/ ApprovalOwner.target = callerAgentId IN
     reply' = [tool |-> "queue_list_approvals", caller |-> callerAgentId,
               status |-> "ok",
               jobs |-> IF shown
                        THEN {[jobId |-> 0, status |-> "pending",
                               callerAgentId |-> ApprovalOwner.callerAgentId,
                               target |-> ApprovalOwner.target]}
                        ELSE {}]
  /\ UNCHANGED <<dispatchesPerMinute, maxQueueDepth, rlWindow, rlKey, dqCall, dqJobs,
                 jobVars, apVars, cbVars, toolVars, exVars>>

NextDispatch ==
  \/ \E c \in DCalls, r \in Routes : queueDispatch(c, r[1], r[2])
  \/ \E c \in DCalls : checkRateLimit(c)
  \/ \E c \in DCalls : checkQueueDepth(c)
  \/ \E c \in DCalls, o \in {"queued", "dispatched", "error"} : dispatchViaBreaker(c, o)
  \/ \E j \in DCalls : workerLaunched(j)
  \/ \E j \in DCalls : jobCompleted(j)
  \/ SecondsPass

NextView ==
  \/ \E c \in 1..MaxViewed, r \in Routes : queueDispatch(c, r[1], r[2])
  \/ \E c \in DCalls : checkRateLimit(c)
  \/ \E c \in DCalls : checkQueueDepth(c)
  \/ \E c \in DCalls, o \in {"queued", "dispatched", "error"} : dispatchViaBreaker(c, o)
  \/ \E j \in DCalls : workerLaunched(j)
  \/ \E j \in DCalls : jobCompleted(j)
  \/ \E v \in Viewers, j \in DCalls : queueStatus(v, j)
  \/ \E v \in Viewers, t \in Targets \cup {""}, n \in {1, MaxViewed} : queueList(v, t, n)
  \/ \E v \in Viewers : queueListPendingApproval(v)

\* ================================================= queue_dispatch: execute
ExCalls == 1..MaxExec

\* the callers: an orchestrator and an agent that is not one
ExCallers == {"lucius", "iris"}

\* auth-helpers.ts:65 the list used when approval.orchestrators is not set
ORCHESTRATORS == {"lucius", "ultron", "meta", "main"}

\* auth-helpers.ts:64-67
isOrchestrator(agentId) == toLowerCase(agentId) \in ORCHESTRATORS

\* queue-dispatch.ts:706-708
needsApproval(requiresApproval, callerAgentId) ==
  requiresApproval \/ ~isOrchestrator(callerAgentId)

\* the fields of PluginState that execute tests.  service.ts:70-72 sets all
\* three once the store is ready
AllSet == [connection |-> TRUE, jobTracker |-> TRUE, circuitBreaker |-> TRUE]

\* after a start that connected all three are set, after one that did not
\* none is (service.ts:89-95), and stop unsets the job tracker before it closes
\* the connection (service.ts:120-132)
PluginStates ==
  {AllSet,
   [connection |-> FALSE, jobTracker |-> FALSE, circuitBreaker |-> FALSE],
   [connection |-> TRUE, jobTracker |-> FALSE, circuitBreaker |-> TRUE]}

NoneSet == [connection |-> FALSE, jobTracker |-> FALSE, circuitBreaker |-> FALSE]

\* where the service stands when the shared state is st: started, never
\* started or stopped, or in stop between service.ts:123 and 129
ServiceOf(st) ==
  IF st = AllSet THEN [pc |-> "running", closed |-> {}]
  ELSE IF st = NoneSet THEN [pc |-> "stopped", closed |-> {}]
  ELSE [pc |-> "closing_connection", closed |-> {"connection"}]

\* the tool and hook calls that read the shared state (queue-dispatch.ts:573,
\* hooks.ts:39) while the service starts or stops
Observers == 1..MaxObservers
NotObserved == [connection |-> "unread", jobTracker |-> "unread", circuitBreaker |-> "unread"]

\* queue-dispatch.ts:573
OrchestratorRunning(st) == st.jobTracker /\ st.circuitBreaker /\ st.connection

\* what the session host answers to sessions.spawn: a run id, a response
\* without one, or a failure
GatewayOutcomes == {"runId", "none", "fail"}

NoResult == [status |-> "none"]

\* the dependsOn argument (queue-dispatch.ts:636-638): empty, naming a job
\* that is not in bull:job-index, or naming a job that has not completed
DependsOnCases == {"none", "missing", "running"}

IdleExec ==
  [pc |-> "idle", caller |-> "", requiresApproval |-> FALSE, project |-> FALSE,
   dependsOn |-> "none", messageId |-> FALSE, gw |-> "", lost |-> FALSE, result |-> NoResult]

InitExecute ==
  /\ pluginState \in PluginStates
  /\ discordChannelId \in BOOLEAN
  /\ storeUp = TRUE
  /\ exCall = [c \in ExCalls |-> IdleExec]
  /\ approvalKeys = {}
  /\ pendingZset = {}
  /\ projectZset = {}
  /\ msgIndex = {}
  /\ notified = {}
  /\ childSessions = {}
  /\ enqueued = {}
  /\ approvedIds = {}
  /\ svc = ServiceOf(pluginState)
  /\ svcObs = [c \in Observers |-> NotObserved]

\* the fallback's job id is always the synthetic one
FallbackJobIdSynthetic(gw) == "fallback-"

\* queue-dispatch.ts:433  response?.runId ?? `fallback-${Date.now()}`
FallbackJobId(gw) == IF gw = "runId" THEN "runId" ELSE "fallback-"

\* queue-dispatch.ts:400-439 directSpawnFallback: what it returns when
\* callGateway answered
directSpawnFallback(gw, reason) ==
  [status |-> "dispatched", fallback |-> TRUE, fallbackReason |-> reason,
   jobId |-> FallbackJobId(gw)]

ErrorResult(why) == [status |-> "error", error |-> why]

\* queue-dispatch.ts:570-573, 616-711: entry of execute up to the first await.
\* The arguments are well formed, the target is known and allowed.
execute(c, caller, requiresApproval, project, dependsOn) ==
  /\ exCall[c].pc = "idle"
  /\ IF c = 1 THEN TRUE ELSE exCall[c - 1].pc # "idle"
  /\ LET call == [exCall[c] EXCEPT !.caller = caller,
                                   !.requiresApproval = requiresApproval,
                                   !.project = project,
                                   !.dependsOn = dependsOn] IN
     exCall' = [exCall EXCEPT ![c] =
       IF ~OrchestratorRunning(pluginState)
       THEN [call EXCEPT !.pc = "unavailable"]
       ELSE IF needsApproval(requiresApproval, caller)
       THEN IF ~discordChannelId
            THEN [call EXCEPT !.pc = "done", !.result = ErrorResult("no_channel")]
            ELSE [call EXCEPT !.pc = "notify"]
       ELSE [call EXCEPT !.pc = "rate"]]
  /\ UNCHANGED <<pluginState, svc, svcObs, discordChannelId, enqueued, storeUp, approvalKeys, pendingZset,
                 projectZset, msgIndex, notified, childSessions, approvedIds,
                 jobVars, apVars, cbVars, toolVars, dqVars>>

\* queue-dispatch.ts:584-612: the direct spawn when the orchestrator is not
\* running, inside try/catch
spawnUnavailable(c, gw) ==
  /\ exCall[c].pc = "unavailable"
  /\ exCall' = [exCall EXCEPT ![c] =
       [@ EXCEPT !.pc = "done", !.gw = gw,
                 !.result = IF gw = "fail" THEN ErrorResult("fallback_failed")
                            ELSE directSpawnFallback(gw, "orchestrator_unavailable")]]
  /\ childSessions' = IF gw = "fail" THEN childSessions ELSE childSessions \cup {c}
  /\ UNCHANGED <<pluginState, svc, svcObs, discordChannelId, enqueued, storeUp, approvalKeys, pendingZset,
                 projectZset, msgIndex, notified, approvedIds,
                 jobVars, apVars, cbVars, toolVars, dqVars>>

\* the record is stored whether or not the notification went out
afterNotificationAlways(sent) == "store"

\* queue-dispatch.ts:754-776: where execute goes after the send
afterNotification(sent) == IF sent THEN "store" ELSE "done"

\* queue-dispatch.ts:539-558, 754-776 sendApprovalNotification inside try/catch
sendApprovalNotification(c, sent, hasMessageId) ==
  /\ exCall[c].pc = "notify"
  /\ notified' = IF sent THEN notified \cup {c} ELSE notified
  /\ exCall' = [exCall EXCEPT ![c] =
       [@ EXCEPT !.pc = afterNotification(sent),
                 !.messageId = sent /\ hasMessageId,
                 !.result = IF afterNotification(sent) = "done"
                            THEN ErrorResult("notification_failed") ELSE @]]
  /\ UNCHANGED <<pluginState, svc, svcObs, discordChannelId, enqueued, storeUp, approvalKeys, pendingZset,
                 projectZset, msgIndex, childSessions, approvedIds,
                 jobVars, apVars, cbVars, toolVars, dqVars>>

\* queue-dispatch.ts:780-813: the MULTI/EXEC pipeline that writes the record,
\* the pending set, the project set and the message index, inside try/catch
pipelineExec(c) ==
  /\ exCall[c].pc = "store"
  /\ IF storeUp
     THEN /\ approvalKeys' = approvalKeys \cup {c}
          /\ pendingZset' = pendingZset \cup {c}
          /\ projectZset' = IF exCall[c].project THEN projectZset \cup {c} ELSE projectZset
          /\ msgIndex' = IF exCall[c].messageId THEN msgIndex \cup {c} ELSE msgIndex
          /\ exCall' = [exCall EXCEPT ![c] =
               [@ EXCEPT !.pc = "done",
                         !.result = [status |-> "pending_approval", jobId |-> "uuid"]]]
     ELSE /\ exCall' = [exCall EXCEPT ![c] =
               [@ EXCEPT !.pc = "done", !.lost = TRUE,
                         !.result = ErrorResult("store_failed")]]
          /\ UNCHANGED <<approvalKeys, pendingZset, projectZset, msgIndex>>
  /\ UNCHANGED <<pluginState, svc, svcObs, discordChannelId, enqueued, storeUp, notified, childSessions,
                 approvedIds, jobVars, apVars, cbVars, toolVars, dqVars>>

\* queue-dispatch.ts:831-841: the rate-limit script, awaited outside any try.
\* limited: the counter is over dispatchesPerMinute
rateLimitEval(c, limited) ==
  /\ exCall[c].pc = "rate"
  /\ exCall' = [exCall EXCEPT ![c] =
       IF dispatchesPerMinute > 0
       THEN IF ~storeUp THEN [@ EXCEPT !.pc = "threw", !.lost = TRUE]
            ELSE IF limited
                 THEN [@ EXCEPT !.pc = "done", !.result = [status |-> "rate_limited"]]
                 ELSE [@ EXCEPT !.pc = "depth"]
       ELSE [@ EXCEPT !.pc = "depth"]]
  /\ UNCHANGED <<pluginState, svc, svcObs, discordChannelId, enqueued, storeUp, approvalKeys, pendingZset,
                 projectZset, msgIndex, notified, childSessions, approvedIds,
                 jobVars, apVars, cbVars, toolVars, dqVars>>

\* queue-dispatch.ts:843-855: getJobCounts, awaited outside any try.
\* full: the target's queue is at maxQueueDepth
getJobCounts(c, full) ==
  /\ exCall[c].pc = "depth"
  /\ exCall' = [exCall EXCEPT ![c] =
       IF maxQueueDepth > 0
       THEN IF ~storeUp THEN [@ EXCEPT !.pc = "threw", !.lost = TRUE]
            ELSE IF full
                 THEN [@ EXCEPT !.pc = "done", !.result = [status |-> "queue_full"]]
                 ELSE [@ EXCEPT !.pc = "breaker"]
       ELSE [@ EXCEPT !.pc = "breaker"]]
  /\ UNCHANGED <<pluginState, svc, svcObs, discordChannelId, enqueued, storeUp, approvalKeys, pendingZset,
                 projectZset, msgIndex, notified, childSessions, approvedIds,
                 jobVars, apVars, cbVars, toolVars, dqVars>>

\* part_002:224-236, 257-293: createJob threw after queue.add or
\* flowProducer.add had put the job in the queue, at the updateData that
\* follows; a missing dependency throws before anything is added
AddedBeforeThrow(failed, missing, added) == failed /\ ~missing /\ added

\* queue-dispatch.ts:866-935 with part_009:27-59: circuitBreaker.dispatch of
\* createJob with the direct spawn as fallback, inside try/catch.  createJob
\* succeeds only if the store answers and no dependency is missing
\* (part_002:257-263); when it throws the breaker counts a failure and calls
\* the fallback, which takes no dependsOn.
\* added: the store took the add before it stopped answering
breakerDispatch(c, gw, added) ==
  /\ exCall[c].pc = "breaker"
  /\ LET skip == cbState = "open" /\ ~ResetDue(cbNow, cbLastFailure)
         missing == exCall[c].dependsOn = "missing"
         primaryOk == ~skip /\ storeUp /\ ~missing
         failed == ~skip /\ ~primaryOk
     IN
     /\ cbState' = IF primaryOk THEN "closed"
                   ELSE IF failed
                        THEN IF ShouldOpen(cbFailures + 1) THEN "open"
                             ELSE IF cbState = "open" THEN "half-open" ELSE cbState
                        ELSE cbState
     /\ cbFailures' = IF primaryOk THEN 0 ELSE IF failed THEN cbFailures + 1 ELSE cbFailures
     /\ cbLastFailure' = IF failed THEN cbNow ELSE cbLastFailure
     /\ cbLast' = IF skip THEN "fallback" ELSE "primary"
     /\ cbStreak' = IF primaryOk THEN 0 ELSE IF failed THEN cbStreak + 1 ELSE cbStreak
     /\ cbHalf' = IF skip \/ cbState = "closed" THEN cbHalf
                  ELSE IF primaryOk THEN "success" ELSE "failure"
     /\ enqueued' = IF primaryOk \/ AddedBeforeThrow(failed, missing, added)
                    THEN enqueued \cup {c} ELSE enqueued
     /\ exCall' = [exCall EXCEPT ![c] =
          IF primaryOk
          THEN [@ EXCEPT !.pc = "done", !.result = [status |-> "queued", jobId |-> "jobId"]]
          ELSE [@ EXCEPT !.pc = "done", !.gw = gw, !.lost = failed /\ ~storeUp,
                         !.result = IF gw = "fail" THEN ErrorResult("dispatch_failed")
                                    ELSE directSpawnFallback(gw, "circuit_open")]]
     /\ childSessions' = IF ~primaryOk /\ gw # "fail"
                         THEN childSessions \cup {c} ELSE childSessions
  /\ UNCHANGED <<cbNow, cbInflight, cbForcedAt>>
  /\ UNCHANGED <<pluginState, svc, svcObs, discordChannelId, storeUp, approvalKeys, pendingZset,
                 projectZset, msgIndex, notified, approvedIds,
                 jobVars, apVars, toolVars, dqVars>>

\* approval-logic.ts:181-247: an authorized approver approves a stored pending
\* request and the target is spawned
approveStored(c) ==
  /\ storeUp
  /\ c \in approvalKeys
  /\ c \in pendingZset
  /\ c \notin approvedIds
  /\ approvedIds' = approvedIds \cup {c}
  /\ childSessions' = childSessions \cup {c}
  /\ pendingZset' = pendingZset \ {c}
  /\ projectZset' = projectZset \ {c}
  /\ UNCHANGED <<pluginState, svc, svcObs, discordChannelId, enqueued, storeUp, exCall, approvalKeys, msgIndex,
                 notified, jobVars, apVars, cbVars, toolVars, dqVars>>

\* the store stops answering, or answers again; only a service that connected
\* has a store to lose
storeLost ==
  /\ pluginState.connection
  /\ storeUp
  /\ storeUp' = FALSE
  /\ UNCHANGED <<pluginState, svc, svcObs, discordChannelId, enqueued, exCall, approvalKeys, pendingZset,
                 projectZset, msgIndex, notified, childSessions, approvedIds,
                 jobVars, apVars, cbVars, toolVars, dqVars>>

storeRestored ==
  /\ ~storeUp
  /\ storeUp' = TRUE
  /\ UNCHANGED <<pluginState, svc, svcObs, discordChannelId, enqueued, exCall, approvalKeys, pendingZset,
                 projectZset, msgIndex, notified, childSessions, approvedIds,
                 jobVars, apVars, cbVars, toolVars, dqVars>>

\* service.ts:47-73 start: the connection is awaited; when it is ready
\* connection, circuitBreaker and jobTracker are set one after the other with
\* no await between them; when it is not, the catch leaves the state as it
\* was (service.ts:89-95)
serviceStart(ready) ==
  /\ svc.pc = "stopped"
  /\ IF ready
       THEN /\ pluginState' = AllSet
            /\ svc' = [pc |-> "listeners", closed |-> {}]
       ELSE UNCHANGED <<pluginState, svc>>
  /\ UNCHANGED <<svcObs, discordChannelId, storeUp, exCall, approvalKeys, pendingZset,
                 projectZset, msgIndex, notified, childSessions, enqueued, approvedIds,
                 jobVars, apVars, cbVars, toolVars, dqVars>>

\* service.ts:75-95 the rest of start: setupDLQListeners, recoverInterruptedJobs
\* and createWorkers are awaited; when one throws the catch logs it and the
\* shared state stays populated
serviceStartRest(ok) ==
  /\ svc.pc = "listeners"
  /\ svc' = [svc EXCEPT !.pc = IF ok THEN "running" ELSE "start_failed"]
  /\ UNCHANGED <<pluginState, svcObs, discordChannelId, storeUp, exCall, approvalKeys,
                 pendingZset, projectZset, msgIndex, notified, childSessions, enqueued,
                 approvedIds, jobVars, apVars, cbVars, toolVars, dqVars>>

\* service.ts:101-121 stop: workers, queue events and DLQ queues are closed,
\* then jobTracker.close() is called and awaited while state.jobTracker is
\* still set
serviceStopCloseTracker ==
  /\ svc.pc \in {"running", "start_failed"}
  /\ svc' = [pc |-> "closing_tracker", closed |-> {"jobTracker"}]
  /\ UNCHANGED <<pluginState, svcObs, discordChannelId, storeUp, exCall, approvalKeys,
                 pendingZset, projectZset, msgIndex, notified, childSessions, enqueued,
                 approvedIds, jobVars, apVars, cbVars, toolVars, dqVars>>

\* service.ts:122-128 state.jobTracker = null, then closeRedisConnection is
\* called and awaited while state.connection is still set
serviceStopCloseConnection ==
  /\ svc.pc = "closing_tracker"
  /\ pluginState' = [pluginState EXCEPT !.jobTracker = FALSE]
  /\ svc' = [pc |-> "closing_connection", closed |-> {"connection"}]
  /\ UNCHANGED <<svcObs, discordChannelId, storeUp, exCall, approvalKeys, pendingZset,
                 projectZset, msgIndex, notified, childSessions, enqueued, approvedIds,
                 jobVars, apVars, cbVars, toolVars, dqVars>>

\* service.ts:129-135 state.connection = null, state.circuitBreaker = null
serviceStopFinish ==
  /\ svc.pc = "closing_connection"
  /\ pluginState' = NoneSet
  /\ svc' = [pc |-> "stopped", closed |-> {}]
  /\ UNCHANGED <<svcObs, discordChannelId, storeUp, exCall, approvalKeys, pendingZset,
                 projectZset, msgIndex, notified, childSessions, enqueued, approvedIds,
                 jobVars, apVars, cbVars, toolVars, dqVars>>

\* what a reader of state.<name> gets: null, a component it can use, or one
\* that is closed
Observed(st, closed, name) ==
  IF ~st[name] THEN "null" ELSE IF name \in closed THEN "closed" ELSE "usable"

\* queue-dispatch.ts:573, hooks.ts:39  a tool or hook call reads the shared
\* state at call time
observeState(c) ==
  /\ svcObs[c] = NotObserved
  /\ svcObs' = [svcObs EXCEPT ![c] =
       [name \in {"connection", "jobTracker", "circuitBreaker"} |->
          Observed(pluginState, svc.closed, name)]]
  /\ UNCHANGED <<pluginState, svc, discordChannelId, storeUp, exCall, approvalKeys,
                 pendingZset, projectZset, msgIndex, notified, childSessions, enqueued,
                 approvedIds, jobVars, apVars, cbVars, toolVars, dqVars>>

NextService ==
  \/ \E ready \in BOOLEAN : serviceStart(ready)
  \/ \E ok \in BOOLEAN : serviceStartRest(ok)
  \/ serviceStopCloseTracker
  \/ serviceStopCloseConnection
  \/ serviceStopFinish
  \/ \E c \in Observers : observeState(c)

NextExecute ==
  \/ \E c \in ExCalls, a \in ExCallers, r \in BOOLEAN, p \in BOOLEAN,
          d \in DependsOnCases : execute(c, a, r, p, d)
  \/ \E c \in ExCalls, gw \in GatewayOutcomes : spawnUnavailable(c, gw)
  \/ \E c \in ExCalls, sent \in BOOLEAN, m \in BOOLEAN : sendApprovalNotification(c, sent, m)
  \/ \E c \in ExCalls : pipelineExec(c)
  \/ \E c \in ExCalls, limited \in BOOLEAN : rateLimitEval(c, limited)
  \/ \E c \in ExCalls, full \in BOOLEAN : getJobCounts(c, full)
  \/ \E c \in ExCalls, gw \in GatewayOutcomes, added \in BOOLEAN : breakerDispatch(c, gw, added)
  \/ \E c \in ExCalls : approveStored(c)
  \/ storeLost
  \/ storeRestored
  \/ forceOpen

\* ========================================================== specifications
Init ==
  InitJob /\ InitApproval /\ InitBreaker /\ InitTrack /\ InitDispatch /\ InitExecute

\* launches that fail and are retried, and the failed events of the jobs
NextAlert ==
  \/ createJob({})
  \/ \E j \in JobIds : WorkerTake(j)
  \/ \E u \in BOOLEAN : WorkerThrow(u)
  \/ \E callerDepth \in 0..DefaultMaxSpawnDepth,
        activeChildren \in {DefaultMaxChildren - 1, DefaultMaxChildren},
        allowed \in BOOLEAN : WorkerReject(callerDepth, activeChildren, allowed)
  \/ \E j \in JobIds : RetryDue(j)
  \/ WorkerStartChild
  \/ WorkerUpdateData
  \/ WorkerIndex
  \/ WorkerReturn
  \/ \E j \in JobIds : failedEvent(j)

Next ==
  NextJob \/ NextApproval \/ NextBreaker \/ NextTrack \/ NextDispatch \/ NextView
    \/ NextExecute \/ NextQueue \/ NextService \/ NextAlert

Spec == Init /\ [][Next]_vars

\* jobs: tracker, gate worker, launch worker, agent_end hook, kill and restart
\* the start state of the job specification: any retry configuration, the
\* rate limits at their defaults
InitJobs ==
  /\ Init
  /\ dispatchesPerMinute = MaxRate
  /\ maxQueueDepth = MaxDepth
  /\ authorizedApprovers = {"kevin"}
  /\ pluginState = AllSet
  /\ discordChannelId

SpecJob == InitJobs /\ [][NextJob]_vars

\* the start state under the default configuration
InitDefault == InitJobs /\ trackerArg /\ cfgAttempts = DefaultAttempts

\* the start state of the dispatch specification: any rate-limit configuration
InitRateLimits ==
  /\ Init
  /\ trackerArg
  /\ cfgAttempts = DefaultAttempts
  /\ authorizedApprovers = {"kevin"}
  /\ pluginState = AllSet
  /\ discordChannelId

\* the start state of the approval specification: approvers configured or not
InitApprovers ==
  /\ Init
  /\ trackerArg
  /\ cfgAttempts = DefaultAttempts
  /\ dispatchesPerMinute = MaxRate
  /\ maxQueueDepth = MaxDepth
  /\ pluginState = AllSet
  /\ discordChannelId

\* approvals: executeApprove and executeReject on one approval record
SpecApproval == InitApprovers /\ [][NextApproval]_vars

\* circuit breaker: dispatch and forceOpen on one breaker
SpecBreaker == InitDefault /\ [][NextBreaker]_vars

\* job tracking: createJob from the after_tool_call hook and the dispatch tool
SpecTrack == InitDefault /\ [][NextTrack]_vars

\* the agent queues with their workers, the removal of finished jobs and the
\* stale-index cleanup of the job tracker
SpecQueue == InitDefault /\ [][NextQueue]_vars

\* queue_dispatch on the non-approval path: rate limit, queue-depth cap, enqueue
SpecDispatch == InitRateLimits /\ [][NextDispatch]_vars

\* queue_status and queue_list over the jobs queue_dispatch enqueued
SpecView == InitDefault /\ [][NextView]_vars

\* launch and completion without faults: jobs without dependencies, the launch
\* worker, the child session ending, the agent_end hook
NextLaunch ==
  \/ createJob({})
  \/ \E j \in JobIds : WorkerTake(j)
  \/ WorkerStartChild
  \/ WorkerUpdateData
  \/ WorkerIndex
  \/ WorkerReturn
  \/ \E k \in SessionKeys, ok \in BOOLEAN : SessionEnd(k, ok)
  \/ \E h \in Hooks, k \in SessionKeys : AgentEnd(h, k)
  \/ \E h \in Hooks : HookUpdate(h)
  \/ \E h \in Hooks : HookRetryResolve(h)
  \/ \E h \in Hooks : HookPermanent(h)

\* the worker, the session host and the hook keep running: a step that can be
\* taken is taken
SpecLaunch == InitJobs /\ [][NextLaunch]_vars /\ WF_vars(NextLaunch)

\* failing launches under a scheduler that keeps taking steps
SpecAlert == InitJobs /\ [][NextAlert]_vars /\ WF_vars(NextAlert)

\* the start state of the execute specification: the service started with or
\* without a store, the approval channel configured or not
InitService ==
  /\ Init
  /\ trackerArg
  /\ cfgAttempts = DefaultAttempts
  /\ dispatchesPerMinute = MaxRate
  /\ maxQueueDepth = MaxDepth
  /\ authorizedApprovers = {"kevin"}

\* queue_dispatch from entry to return, with the store and the session host
\* failing
SpecExecute == InitService /\ [][NextExecute]_vars

\* the start state of the service specification: the service not started
InitStopped ==
  /\ Init
  /\ trackerArg
  /\ cfgAttempts = DefaultAttempts
  /\ dispatchesPerMinute = MaxRate
  /\ maxQueueDepth = MaxDepth
  /\ authorizedApprovers = {"kevin"}
  /\ pluginState = NoneSet
  /\ discordChannelId

\* start and stop of the service beside tool and hook calls that read the
\* shared state
SpecService == InitStopped /\ [][NextService]_vars

\* ========================================================== SpecJob properties

C3_ActiveOnlyAfterDepsCompleted ==
  [][\A p \in JobIds :
       LET launched == \E k \in SessionKeys : started[k] = 0 /\ started'[k] = p
           activated == rec[p].status = "queued" /\ rec'[p].status = "active"
       IN (rec[p] # NoRec /\ (launched \/ activated)) =>
            \A d \in rec[p].dependsOn : rec[d].status = "completed"]_vars

C8_RestartMarksInterruptedFailed ==
  [][(~up /\ up') =>
       \A j \in JobIds :
         (bull[j] = "active" /\ rec[j].status \in {"active", "announcing"}) =>
           /\ rec'[j].status = "failed"
           /\ rec'[j].error = "restart"
           /\ rec'[j].completedAt]_vars

\* C9: a job whose launch was cut by a kill and that was taken up again after
\* the restart has at most one child session.
C9_NoDuplicateLaunchAfterKill ==
  \A j \in JobIds : stalledCount[j] > 0 => Launches(j) <= 1

\* ===================================================== SpecApproval properties

\* C2: when an approve and a reject both read the record while it is pending
\* and both have returned, having found the record, and one of them succeeded,
\* then the other did not succeed, wrote nothing to the store and reported
\* the record as already approved or already rejected.
C2_ExactlyOneOfApproveReject ==
  \A a \in Ops, r \in Ops :
    \A w \in {a, r} :
      LET l == IF w = a THEN r ELSE a IN
      (/\ op[a].kind = "approve" /\ op[r].kind = "reject"
       /\ op[a].pc = "done" /\ op[r].pc = "done"
       /\ op[a].pre = "pending" /\ op[r].pre = "pending"
       /\ op[l].result # "notfound"
       /\ op[w].casOk) =>
        /\ ~op[l].casOk
        /\ ~op[l].wrote
        /\ op[l].result = "already"
        /\ op[l].saw \in {"approved", "approved_spawn_failed", "rejected"}

\* ====================================================== SpecBreaker properties

\* C10: a dispatch call invokes the primary function only when no forceOpen
\* was called or more than resetTimeout has passed since the latest call.
C10_NoPrimaryAfterForceOpen ==
  [][(cbInflight' = cbInflight + 1) =>
       (cbForcedAt = -1 \/ cbNow - cbForcedAt > ResetTimeout)]_vars

\* C11: while the breaker is closed fewer than failMax primary failures have
\* followed the latest primary success; a failed primary call moves a closed
\* breaker to open exactly when it is the failMax-th failure in a row; a
\* primary success sets the failure count to zero.
C11_OpensAtFailMax ==
  /\ [](cbState = "closed" => (cbStreak < FailMax /\ cbFailures = cbStreak))
  /\ [][(cbInflight' = cbInflight - 1) =>
          /\ (cbState = "closed" /\ cbStreak' = FailMax) => cbState' = "open"
          /\ (cbState = "closed" /\ cbState' = "open") => cbStreak' = FailMax
          /\ (cbStreak' = 0) => (cbFailures' = 0 /\ cbState' = "closed")]_vars

\* C11 witness: failMax failures in a row opened a breaker that was never forced
C11_Witness ==
  cbState = "open" /\ cbStreak = FailMax /\ cbForcedAt = -1

\* ======================================================== SpecTrack properties

C13_OnlyOwnRecordsNoSessionKey ==
  ~isSystemAgent(reply.caller) =>
    \A r \in reply.jobs :
      /\ "openclawSessionKey" \notin DOMAIN r
      /\ reply.tool \in {"queue_status", "queue_list"} =>
           reply.caller \in {r.dispatchedBy, r.target}
      /\ reply.tool = "queue_list_approvals" =>
           reply.caller \in {r.callerAgentId, r.target}

\* a list returned to a non-system agent holds a job whose stored data carries
\* a session key, while the queues hold a job the agent may not see
C13_Witness ==
  /\ reply.tool = "queue_list"
  /\ reply.caller = "iris"
  /\ \E r \in reply.jobs : dqJobs[r.jobId].openclawSessionKey # ""
  /\ \E j \in DCalls : dqJobs[j] # NoJob /\ ~CanView(dqJobs[j], "iris")

\* ==================================== SpecApproval properties: authorization

\* C14: an approve or a reject, by /approve, /reject or a reaction, changes the
\* approval record or spawns an agent only if the id of the actor is in
\* approval.authorizedApprovers; with an empty list nobody approves or rejects.
C14_OnlyAuthorizedApproversAct ==
  /\ [](\A o \in Ops :
          (op[o].pc # "idle" /\ op[o].actor \notin authorizedApprovers) =>
            /\ op[o].pc = "done"
            /\ op[o].result = "unauthorized"
            /\ ~op[o].wrote
            /\ ~op[o].casOk)
  /\ [](authorizedApprovers = {} =>
          /\ apSpawns = 0
          /\ apPending
          /\ apRec.status \in {"pending", "absent"})
  /\ [][\A o \in Ops :
          (/\ op'[o] # op[o]
           /\ <<apRec, apTtl, apPending, apSpawns>>' # <<apRec, apTtl, apPending, apSpawns>>)
          => op'[o].actor \in authorizedApprovers]_vars

\* an approver is configured, someone else was turned away, and the approver's
\* own approve went through
C14_Witness ==
  /\ authorizedApprovers = {"kevin"}
  /\ \E o \in Ops, q \in Ops :
       /\ op[o].actor = "mallory"
       /\ op[o].entry = "reaction_approve"
       /\ op[o].result = "unauthorized"
       /\ op[q].actor = "kevin"
       /\ op[q].result = "success"
       /\ o < q

\* ===================================================== SpecDispatch properties

\* the calls of a caller that passed the rate-limit check in one counter window
PassedInWindow(caller, window) ==
  {c \in DCalls : /\ dqCall[c].caller = caller
                  /\ dqCall[c].window = window
                  /\ dqCall[c].pc \in {"depth", "create", "done"}
                  /\ dqCall[c].result # "rate_limited"}

\* C15: with a limit L > 0, each dispatch of a caller adds one to the caller's
\* counter; it passes the rate-limit check when that brings the counter to
\* 1..L and is rejected with rate_limited when it brings it above L, so at
\* most L dispatches of a caller pass in one counter window, whatever the
\* interleaving.
C15_AtMostLimitPassPerWindow ==
  /\ [](dispatchesPerMinute > 0 =>
          \A a \in Dispatchers, w \in 1..MaxDispatches :
            Cardinality(PassedInWindow(a, w)) <= dispatchesPerMinute)
  /\ [][\A c \in DCalls :
          (dispatchesPerMinute > 0 /\ dqCall[c].pc = "rate" /\ dqCall'[c].pc # "rate") =>
            LET current == rlKey'[dqCall[c].caller].val IN
            /\ current = rlKey[dqCall[c].caller].val + 1
            /\ dqCall'[c].current = current
            /\ current <= dispatchesPerMinute =>
                 (dqCall'[c].pc = "depth" /\ dqCall'[c].result = "none")
            /\ current > dispatchesPerMinute =>
                 (dqCall'[c].pc = "done" /\ dqCall'[c].result = "rate_limited")]_vars

\* three dispatches of one caller were in the rate-limit check together; two
\* passed and the third was rejected in the same window
C15_Witness ==
  /\ dispatchesPerMinute = 2
  /\ \E a \in Dispatchers :
       /\ Cardinality(PassedInWindow(a, 1)) = 2
       /\ \E c \in DCalls : /\ dqCall[c].caller = a
                            /\ dqCall[c].window = 1
                            /\ dqCall[c].current = 3
                            /\ dqCall[c].result = "rate_limited"
       /\ \A c \in DCalls : dqCall[c].pc \in {"depth", "done"}

\* C16: the counter is created with 60 s to live by the first dispatch of a
\* window and no later dispatch, accepted or rejected, changes that; a
\* dispatch that finds no counter, as after the expiry, starts a new window
\* and passes the check.
C16_WindowExpiresAfterFirstIncrement ==
  /\ [](\A a \in Dispatchers :
          rlKey[a] # NoKey => (rlKey[a].ttl >= 1 /\ rlKey[a].ttl <= RateWindow))
  /\ [][\A c \in DCalls :
          (dispatchesPerMinute > 0 /\ dqCall[c].pc = "rate" /\ dqCall'[c].pc # "rate") =>
            LET a == dqCall[c].caller IN
            IF rlKey[a] = NoKey
            THEN /\ rlKey'[a] = [val |-> 1, ttl |-> RateWindow]
                 /\ dqCall'[c].pc = "depth"
            ELSE rlKey'[a].ttl = rlKey[a].ttl]_vars
  /\ [][(\E a \in Dispatchers : rlKey[a] # NoKey /\ rlKey'[a] = NoKey) =>
          \A a \in Dispatchers :
            (rlKey[a] # NoKey /\ rlKey'[a] = NoKey) => rlKey[a].ttl <= TickSeconds]_vars

\* a caller was rejected in its first window, the counter expired, and its
\* next dispatch opened a second window and passed
C16_Witness ==
  \E a \in Dispatchers, c \in DCalls, d \in DCalls :
    /\ dqCall[c].caller = a /\ dqCall[d].caller = a
    /\ dqCall[c].window = 1 /\ dqCall[c].result = "rate_limited"
    /\ dqCall[d].window = 2 /\ dqCall[d].current = 1
    /\ dqCall[d].pc \in {"depth", "create", "done"}

C18_TransitionsOnlyFromPending ==
  [][/\ (apRec'.status = "approved" /\ apRec.status # "approved") =>
          apRec.status \in {"pending", "approved_spawn_failed"}
     /\ (apRec'.status = "rejected" /\ apRec.status # "rejected") =>
          apRec.status = "pending"]_vars

\* C19: once the record is approved and carries the spawn linkage, an approve
\* or a reject that comes later, and so reads the record in that state, does
\* not change the record, by its expiry handling or otherwise.
C19_ApprovedLinkedIsTerminal ==
  [][\A o \in Ops :
       (/\ op[o].pre = "approved"
        /\ op[o].snap.linked
        /\ op'[o] # op[o]) => apRec' = apRec]_vars

\* C20: an approve that found the record approved_spawn_failed and not expired,
\* passed the compare-and-swap and spawned the agent leaves the record
\* approved with the spawn linkage.
C20_RetryAfterSpawnFailure ==
  [][\A o \in Ops :
       (/\ op[o].kind = "approve"
        /\ op[o].pre = "approved_spawn_failed"
        /\ op[o].pc = "link"
        /\ op'[o].pc = "approve_zrem") =>
         (apRec'.status = "approved" /\ apRec'.linked)]_vars

\* =========================================== SpecBreaker properties: reset

\* C26: a dispatch on an open breaker turns it half-open and calls the primary
\* when resetTimeout or more has passed since the last failure, exactly
\* resetTimeout included, and calls only the fallback when less has passed.
C26_HalfOpenAtResetTimeout ==
  [][(cbState = "open" /\ (cbLast' # cbLast \/ cbInflight' = cbInflight + 1)) =>
       IF cbNow - cbLastFailure >= ResetTimeout
       THEN /\ cbState' = "half-open"
            /\ cbLast' = "primary"
            /\ cbInflight' = cbInflight + 1
       ELSE /\ cbState' = "open"
            /\ cbLast' = "fallback"
            /\ cbInflight' = cbInflight]_vars

\* C27: when a primary call ends while the breaker is half-open, its success
\* closes the breaker with the failure count at zero and its failure opens
\* the breaker again.
C27_HalfOpenOutcome ==
  /\ [](cbState \in {"open", "half-open"} => cbFailures >= FailMax)
  /\ [][(cbState = "half-open" /\ cbInflight' = cbInflight - 1) =>
          /\ cbStreak' = 0 => (cbState' = "closed" /\ cbFailures' = 0)
          /\ cbStreak' # 0 => cbState' = "open"]_vars

\* a primary call failed in half-open and the breaker is open again
C27_Witness ==
  /\ cbHalf = "failure"
  /\ cbState = "open"
  /\ cbFailures = FailMax + 1

\* C28: forceOpen leaves the breaker open; from closed or half-open it sets the
\* failure count to failMax and lastFailure to now, and on an open breaker it
\* leaves state, failure count and lastFailure as they are.
C28_ForceOpenIdempotent ==
  [][(cbForcedAt' # cbForcedAt) =>
       /\ cbState' = "open"
       /\ cbState = "open" =>
            (cbFailures' = cbFailures /\ cbLastFailure' = cbLastFailure)
       /\ cbState # "open" =>
            (cbFailures' = FailMax /\ cbLastFailure' = cbNow)]_vars

\* forceOpen was called on a breaker that was open since an earlier time, and
\* lastFailure still has the earlier time
C28_Witness ==
  /\ cbState = "open"
  /\ cbForcedAt > cbLastFailure
  /\ cbFailures = FailMax

\* ======================================== SpecApproval properties: pending set

IsApprovalCall(c) ==
  /\ exCall[c].pc # "idle"
  /\ needsApproval(exCall[c].requiresApproval, exCall[c].caller)

\* C22: on the approval path the notification is sent before any store write:
\* a call's record, pending-set entry, project-set entry and message-index
\* entry are written only in a step that finds its notification already sent,
\* and a call whose notification was not sent has none of the four.
C22_NotificationBeforeStoreWrite ==
  /\ [](\A c \in ExCalls :
          c \notin notified =>
            c \notin (approvalKeys \cup pendingZset \cup projectZset \cup msgIndex))
  /\ [][\A c \in ExCalls :
          (c \in approvalKeys' \ approvalKeys \/ c \in pendingZset' \ pendingZset
             \/ c \in projectZset' \ projectZset \/ c \in msgIndex' \ msgIndex)
            => c \in notified]_vars

\* one approval request failed at the notification and left nothing in the
\* store, another one was notified and stored with its project and message id
C22_Witness ==
  \E c, d \in ExCalls :
    /\ exCall[c].pc = "done"
    /\ exCall[c].result = ErrorResult("notification_failed")
    /\ exCall[c].project
    /\ c \notin (approvalKeys \cup pendingZset \cup projectZset \cup msgIndex)
    /\ exCall[d].result.status = "pending_approval"
    /\ d \in approvalKeys \cap projectZset \cap msgIndex

C24_StoreLossAbsorbed ==
  \A c \in ExCalls :
    (/\ exCall[c].pc \in {"done", "threw"}
     /\ OrchestratorRunning(pluginState)
     /\ ~needsApproval(exCall[c].requiresApproval, exCall[c].caller)
     /\ exCall[c].lost
     /\ exCall[c].gw # "fail") =>
       /\ exCall[c].pc = "done"
       /\ exCall[c].result.status = "dispatched"
       /\ exCall[c].result.fallback

\* C25: no call of the dispatch tool ends by throwing.
C25_NoExceptionEscapes ==
  \A c \in ExCalls : exCall[c].pc # "threw"

\* C30: a child session was started for a dispatch from a non-orchestrator or
\* with requiresApproval only if its approval request was approved.
C30_NoSpawnWithoutApproval ==
  \A c \in ExCalls :
    (IsApprovalCall(c) /\ c \in childSessions) => c \in approvedIds

\* ======================================================= SpecLaunch properties
\* C29: once the child session of a launched job has ended, the job's record
\* comes to status completed or failed (or failed_permanent) with completedAt
\* set: it does not stay active.
C29_EndedSessionCompletesJob ==
  \A k \in SessionKeys :
    (started[k] # 0 /\ ended[k] # "running")
      ~> (/\ started[k] # 0
          /\ rec[started[k]].status \in {"completed", "failed", "failed_permanent"}
          /\ rec[started[k]].completedAt)

\* ====================================== SpecApproval properties: single spawn
\* C31: whatever approve calls are made on an approval record, repeated or
\* concurrent, the session host starts at most one child session for it.
C31_ChildStartedAtMostOnce == apChildren <= 1

\* ============================================= SpecJob properties: relaunch
\* C32: a job that was not put back by the stall check has at most one child
\* session, whatever launch attempts of it failed: an attempt that fails
\* before the agent-start call starts no child, so this says that an attempt
\* that fails after it is not followed by a second child session.
C32_NoRelaunchAfterLateFailure ==
  \A j \in JobIds : stalledCount[j] = 0 => Launches(j) <= 1

\* ============================================ SpecExecute properties: spawns
\* C33: no dispatch call has its task both added to the target's queue, where
\* a worker launches it, and spawned directly by the fallback.
C33_NotBothEnqueuedAndSpawned ==
  \A c \in ExCalls : ~(c \in enqueued /\ c \in childSessions)

\* C34: with the orchestrator running, no child session is started directly
\* for a dispatch on the non-approval path whose dependsOn names a job that
\* is missing or has not completed.
C34_NoDirectSpawnWithDependencies ==
  \A c \in ExCalls :
    (/\ OrchestratorRunning(pluginState)
     /\ exCall[c].pc # "idle"
     /\ ~needsApproval(exCall[c].requiresApproval, exCall[c].caller)
     /\ exCall[c].dependsOn \in {"missing", "running"}) => c \notin childSessions


\* C35: a tracking job the after_tool_call hook created for a session that
\* sessions_spawn already started (its job id is the run id) is never consumed
\* by a worker as a launch, and its openclawRunId is never replaced
C35_TrackingJobNeverLaunched ==
  \A a \in Agents, r \in Runs :
    trkQueue[a][r] # NoTrk =>
      /\ trkQueue[a][r].bull # "completed"
      /\ trkQueue[a][r].openclawRunId = r

\* C37: for a job created without dependencies, once createJob is past the
\* enqueue the job has its bull:job-index entry: no observer sees the job in
\* its queue without the entry, and no failure leaves it so
C37_EnqueueAndIndexAtomic ==
  \A a \in Agents, i \in TrkIds :
    trkQueue[a][i] # NoTrk => trkIndex[i] = a

\* C38: cleanupStaleIndexEntries removes an entry of bull:job-index only when
\* the job the entry names no longer exists in its queue
C38_CleanupRemovesOnlyStale ==
  [][\A i \in TrkIds :
       (trkIndex[i] # 0 /\ trkIndex'[i] = 0) => trkQueue[trkIndex[i]][i] = NoTrk]_vars

\* C36: a tool or hook call that reads the shared plugin state while the
\* service starts, stops or fails to start gets either all of connection,
\* circuit breaker and job tracker set and usable, or all of them null
C36_SharedStateAllOrNothing ==
  \A c \in Observers :
    svcObs[c] # NotObserved =>
      \/ \A name \in DOMAIN svcObs[c] : svcObs[c][name] = "usable"
      \/ \A name \in DOMAIN svcObs[c] : svcObs[c][name] = "null"

\* C39: a launch rejected because the caller is at the depth limit or the
\* target is not in its allowlist fails the job at once, starts no child and
\* is never tried again; a launch rejected because the caller has too many
\* active children starts no child and is retried until LaunchAttempts
\* attempts are made
C39_RejectedLaunch ==
  /\ [](\A j \in JobIds :
         launchCheck[j].reason \in {"depth", "allowlist"} => bull[j] = "failed")
  /\ [][\A j \in JobIds :
         launchCheck'[j] # launchCheck[j] =>
           /\ started' = started
           /\ launchCheck'[j].reason = "children" =>
                bull'[j] = IF launchCheck'[j].attempt < LaunchAttempts
                             THEN "delayed" ELSE "failed"]_vars

\* one job waits for its retry after a launch rejected at the children limit,
\* another has failed after a launch rejected at the depth limit or allowlist
C39_Witness ==
  \E j, i \in JobIds :
    /\ launchCheck[j].reason = "children" /\ bull[j] = "delayed"
    /\ launchCheck[i].reason \in {"depth", "allowlist"} /\ bull[i] = "failed"

\* C40: every job of an agent queue whose launch attempts are used up leads to
\* a DLQ alert, sent by the failed-event subscription for that queue
C40_ExhaustedJobAlerted ==
  \A j \in JobIds :
    (bull[j] = "failed" /\ Exhausted(attemptsMade[j])) ~> (j \in dlq.alerts)
====
